---------------------------- MODULE Spec2Model ----------------------------
(***************************************************************************)
(* Two-moment (M1) multigroup radiation solver of quokka: the hyperbolic   *)
(* IMEX stages (PredictStep, AddFluxesRK2), the HLL interface flux         *)
(* (ComputeFluxes), the implicit matter-radiation exchange                 *)
(* (AddSourceTerms) and the radiation driver of RadhydroSimulation.        *)
(*                                                                         *)
(* Numbers.  The code computes in IEEE doubles.  The model computes in     *)
(* exact extended rationals <<n, d>> in lowest terms with d >= 0:          *)
(*   d > 0            the finite value n/d                                 *)
(*   <<1,0>>, <<-1,0>>  +infinity, -infinity                               *)
(*   <<0,0>>          NaN                                                  *)
(* with the IEEE rules for division by zero, infinities and NaN (every     *)
(* comparison with NaN is false).  Rounding is not modelled, except that   *)
(* the square root of a rational that is no perfect square is rounded      *)
(* towards zero to a multiple of 1/SqrtDen.                                *)
(***************************************************************************)
EXTENDS Integers, Sequences, FiniteSets, TLC

-----------------------------------------------------------------------------
(* Extended rational arithmetic                                            *)

IAbs(n) == IF n < 0 THEN -n ELSE n

ISgn(n) == IF n > 0 THEN 1 ELSE IF n < 0 THEN -1 ELSE 0

RECURSIVE GCD(_, _)
GCD(a, b) == IF b = 0 THEN a ELSE GCD(b, a % b)

\* the value n/d in lowest terms; d = 0 yields an infinity or NaN
Norm(n, d) ==
    IF d = 0 THEN <<ISgn(n), 0>>
    ELSE LET s == IF d < 0 THEN -1 ELSE 1
             g == GCD(IAbs(n), IAbs(d))
         IN  <<(s * n) \div g, (s * d) \div g>>

I(n) == <<n, 1>>
Q(n, d) == Norm(n, d)

Zero == <<0, 1>>
One == <<1, 1>>
Two == <<2, 1>>
Half == <<1, 2>>
PosInf == <<1, 0>>
NegInf == <<-1, 0>>
NaN == <<0, 0>>

IsNaN(a) == a = NaN
IsFinite(a) == a[2] > 0

RNeg(a) == <<-a[1], a[2]>>

\* the operands are cross-reduced first, which keeps the intermediate products small
RAdd(a, b) ==
    IF a[2] = 0 /\ b[2] = 0
    THEN (IF a = b THEN a ELSE NaN)
    ELSE IF a[2] = 0 THEN a
    ELSE IF b[2] = 0 THEN b
    ELSE LET g == GCD(a[2], b[2])
         IN  Norm(a[1] * (b[2] \div g) + b[1] * (a[2] \div g), (a[2] \div g) * b[2])

RSub(a, b) == RAdd(a, RNeg(b))

RMul(a, b) ==
    IF a[2] = 0 \/ b[2] = 0 \/ a[1] = 0 \/ b[1] = 0
    THEN Norm(a[1] * b[1], a[2] * b[2])
    ELSE LET g1 == GCD(IAbs(a[1]), b[2])
             g2 == GCD(IAbs(b[1]), a[2])
         IN  Norm((a[1] \div g1) * (b[1] \div g2), (a[2] \div g2) * (b[2] \div g1))

\* 1/a: 1/0 = +inf, 1/inf = 0, 1/NaN = NaN
RInv(a) == IF a[1] < 0 THEN Norm(-a[2], -a[1]) ELSE Norm(a[2], a[1])

RDiv(a, b) == RMul(a, RInv(b))

Rank(a) == IF a[2] > 0 THEN 0 ELSE a[1]

RLt(a, b) ==
    /\ ~IsNaN(a)
    /\ ~IsNaN(b)
    /\ IF a[2] > 0 /\ b[2] > 0
       THEN LET g == GCD(a[2], b[2])
            IN  a[1] * (b[2] \div g) < b[1] * (a[2] \div g)
       ELSE Rank(a) < Rank(b)

RLe(a, b) == ~IsNaN(a) /\ ~IsNaN(b) /\ (a = b \/ RLt(a, b))
RGt(a, b) == RLt(b, a)
RGe(a, b) == RLe(b, a)

RAbs(a) == <<IAbs(a[1]), a[2]>>

\* std::min / std::max: (b < a) ? b : a and (a < b) ? b : a
RMin(a, b) == IF RLt(b, a) THEN b ELSE a
RMax(a, b) == IF RLt(a, b) THEN b ELSE a

RECURSIVE RPowNat(_, _)
RPowNat(a, k) == IF k = 0 THEN One ELSE RMul(a, RPowNat(a, k - 1))

\* integer square root: the largest k with k*k <= m, by bisection of lo..hi
RECURSIVE ISqrtIn(_, _, _)
ISqrtIn(m, lo, hi) ==
    IF lo >= hi THEN lo
    ELSE LET mid == (lo + hi + 1) \div 2
         IN  IF mid * mid <= m THEN ISqrtIn(m, mid, hi) ELSE ISqrtIn(m, lo, mid - 1)
ISqrt(m) == ISqrtIn(m, 0, IF m < 46340 THEN m ELSE 46340)

IsSquare(m) == ISqrt(m) * ISqrt(m) = m

\* std::sqrt: exact on perfect squares, else rounded towards zero to 1/16
RSqrt(a) ==
    IF IsNaN(a) THEN NaN
    ELSE IF a[1] < 0 THEN NaN
    ELSE IF a[2] = 0 THEN PosInf
    ELSE IF IsSquare(a[1]) /\ IsSquare(a[2]) THEN Norm(ISqrt(a[1]), ISqrt(a[2]))
    ELSE Norm(ISqrt((a[1] * 256) \div a[2]), 16)

\* the element of a singleton set.  Only({e(x) : x \in {v}}) is e with x bound
\* to the value of v, which is computed once however often e uses x.
Only(S) == CHOOSE x \in S : TRUE

\* sums of a vector over an index set
RECURSIVE RSum(_, _)
RSum(f, S) ==
    IF S = {} THEN Zero
    ELSE LET x == CHOOSE y \in S : \A z \in S : y <= z
         IN  RAdd(f[x], RSum(f, S \ {x}))


-----------------------------------------------------------------------------
(* Sizes                                                                   *)

\* number of cells of the periodic 1-D domain of the hyperbolic stages
NCells == 3

\* number of photon groups (Physics_Traits<problem_t>::nGroups)
NGroups == 2

\* radiation variables per group: E_r, Fx, Fy, Fz
numRadVars == 4

Cells == 1..NCells
Faces == 1..(NCells + 1)
Groups == 1..NGroups
Dims == 1..3

nvarHyperbolic == numRadVars * NGroups
HypVars == 1..nvarHyperbolic

\* offsets of the components of group g in a cons array (radVarIndex)
radEnergy_index(g) == 1 + numRadVars * (g - 1)
x1RadFlux_index(g) == 2 + numRadVars * (g - 1)
x2RadFlux_index(g) == 3 + numRadVars * (g - 1)
x3RadFlux_index(g) == 4 + numRadVars * (g - 1)

\* IMEX PD-ARS coefficients
IMEX_a22 == One
IMEX_a32 == Half

\* Erad_floor_ = RadSystem_Traits::Erad_floor / nGroups_
Erad_floor_(traitFloor) == RDiv(traitFloor, I(NGroups))

-----------------------------------------------------------------------------
VARIABLES
    \* hyperbolic stages (PredictStep, AddFluxesRK2)
    hcfg,        \* [Erad_floor, c_light, dt, dx, dir]
    state_old,   \* state_old_: cell -> radiation components
    state_new,   \* state_new_: cell -> radiation components
    fluxOld,     \* face -> components, the stage-1 flux array
    fluxNew,     \* face -> components, the stage-2 flux array
    hpc,         \* "idle", "stage1", "stage2", "done"
    hdone,       \* cells the current ParallelFor has processed
    hamended,    \* <<stage, cell>> whose state went through amendRadState
    hassert,     \* <<stage, cell>> whose AMREX_ASSERT(isStateValid) was false
    \* interface fluxes (ComputeFluxes)
    fxcfg,            \* [c_light, c_hat, dir]
    consVar,          \* cell -> conserved radiation components, cells 0..NCells+1
    x1LeftState,      \* face -> reconstructed primitive components, left of the face
    x1RightState,     \* face -> reconstructed primitive components, right of the face
    x1Flux,           \* face -> flux components (written by ComputeFluxes)
    x1FluxDiffusive,  \* face -> diffusive flux components (written by ComputeFluxes)
    hllInputs,        \* face -> group -> [U_L, U_R, f_L, f_R] handed to the HLL formula
    fxdone,           \* faces the ParallelFor has processed
    \* implicit exchange of one cell (AddSourceTerms)
    scfg,           \* traits and arguments: c, chat, a_rad, Erad_floor, c_v, beta_order,
                    \* opac, dt_radiation, stage
    sIn,            \* the cell's components when AddSourceTerms was called
    sCons,          \* the cell's components in consVar
    sSrc,           \* radEnergySource of the cell: group -> rate
    spc,            \* "idle", "pass", "newton", "newtonEnd", "flux", "outerEnd", "stored", "aborted"
    ite,            \* outer pass counter
    nIter,          \* Newton iteration counter n
    Egas_guess,
    EradVec_guess,
    Dvec,           \* D
    tau0,
    work,
    work_prev,
    Rvec,
    Frad_t1,        \* group -> <<x, y, z>>
    dMomentum,
    sfail,          \* the assertion that aborted the call, or "none"
    \* radiation subcycle of one level (RadhydroSimulation)
    dcfg,           \* [is_hydro_enabled_, dt_lev_hydro, dtrad_tmp]
    dpc,            \* "idle", "subcycle", "fillOld", "stage1", "fillNew", "stage2", "source",
                    \* "done", "aborted"
    nsubSteps,
    dt_radiation,
    isub,           \* the counter i of the subcycle loop
    giter,          \* the grid the MFIter of the current loop points at
    oldGhost,       \* the substep whose fill the ghost zones of state_old_ hold, or -1
    newValid,       \* grid -> <<substep, contents>> of the valid cells of state_new_
    newGhost,       \* grid -> <<substep, contents>> the ghost zones of state_new_ hold of that grid
    s1Read,         \* grid -> what stage 1 read on that grid: [sub, ghost, valid]
    s2Read,         \* grid -> what stage 2 read on that grid: [sub, valid, ghost]
    srcRead,        \* grid -> what the exchange found on that grid: [sub, new]
    frInc,          \* grid -> flux-register increments of the current substep
    \* one call of a function of the closure layer
    pin,            \* the arguments: [kind, ...]
    pout,           \* the value returned
    ppc,            \* "idle", "call", "returned"
    \* the lagged work term of the outer loop of AddSourceTerms, any group count
    lagcfg,         \* [opacity_model, ng, c, chat, dt_radiation, stage, gasMtm0, frad, ...]
    lagpc,          \* "idle", "pass", "solve", "update", "check", "done", "aborted"
    lag             \* [ite, Egas_guess, work, work_prev, Rvec, Frad_t1, GasMom1]

hypVars == <<hcfg, state_old, state_new, fluxOld, fluxNew, hpc, hdone, hamended, hassert>>

fluxVars == <<fxcfg, consVar, x1LeftState, x1RightState, x1Flux, x1FluxDiffusive, hllInputs, fxdone>>

srcVars == <<scfg, sIn, sCons, sSrc, spc, ite, nIter, Egas_guess, EradVec_guess, Dvec, tau0,
             work, work_prev, Rvec, Frad_t1, dMomentum, sfail>>

driverVars == <<dcfg, dpc, nsubSteps, dt_radiation, isub, giter, oldGhost, newValid, newGhost,
                s1Read, s2Read, srcRead, frInc>>

pureVars == <<pin, pout, ppc>>

lagVars == <<lagcfg, lagpc, lag>>

vars == <<hypVars, fluxVars, srcVars, driverVars, pureVars, lagVars>>

NoArray == [i \in {} |-> 0]

\* the values a component's variables hold in the runs of another component
HypIdle ==
    /\ hcfg = NoArray /\ state_old = NoArray /\ state_new = NoArray
    /\ fluxOld = NoArray /\ fluxNew = NoArray
    /\ hpc = "idle" /\ hdone = {} /\ hamended = {} /\ hassert = {}

FluxIdle ==
    /\ fxcfg = NoArray /\ consVar = NoArray
    /\ x1LeftState = NoArray /\ x1RightState = NoArray
    /\ x1Flux = NoArray /\ x1FluxDiffusive = NoArray
    /\ hllInputs = NoArray /\ fxdone = {}

SrcIdle ==
    /\ scfg = NoArray /\ sIn = NoArray /\ sCons = NoArray /\ sSrc = NoArray
    /\ spc = "idle" /\ ite = 0 /\ nIter = 0
    /\ Egas_guess = NaN /\ EradVec_guess = NoArray /\ Dvec = NoArray /\ tau0 = NoArray
    /\ work = NoArray /\ work_prev = NoArray /\ Rvec = NoArray
    /\ Frad_t1 = NoArray /\ dMomentum = NoArray /\ sfail = "none"

DriverIdle ==
    /\ dcfg = NoArray /\ dpc = "idle" /\ nsubSteps = 0 /\ dt_radiation = NaN
    /\ isub = 0 /\ giter = 0 /\ oldGhost = -1
    /\ newValid = NoArray /\ newGhost = NoArray
    /\ s1Read = NoArray /\ s2Read = NoArray /\ srcRead = NoArray /\ frInc = NoArray

PureIdle == pin = NoArray /\ pout = NoArray /\ ppc = "idle"

LagIdle == lagcfg = NoArray /\ lagpc = "idle" /\ lag = NoArray

-----------------------------------------------------------------------------
(* State validity (radiation_system.hpp)                                   *)

Sq(a) == RMul(a, a)

\* sqrt(Fx*Fx + Fy*Fy + Fz*Fz); for a vector along the first axis the root of
\* the square is |Fx|, which is taken without forming the square
Norm3(Fx, Fy, Fz) ==
    IF Fy = Zero /\ Fz = Zero /\ IsFinite(Fx) THEN RAbs(Fx)
    ELSE RSqrt(RAdd(RAdd(Sq(Fx), Sq(Fy)), Sq(Fz)))

isGroupValid(cons, g, c_light) ==
    LET E_r == cons[radEnergy_index(g)]
        Fx == cons[x1RadFlux_index(g)]
        Fy == cons[x2RadFlux_index(g)]
        Fz == cons[x3RadFlux_index(g)]
        Fnorm == Norm3(Fx, Fy, Fz)
        f == RDiv(Fnorm, RMul(c_light, E_r))
        isNonNegative == RGt(E_r, Zero)
        isFluxCausal == RLe(f, One)
    IN  isNonNegative /\ isFluxCausal

isStateValid(cons, c_light) == \A g \in Groups : isGroupValid(cons, g, c_light)

\* the components of group g after amendRadState
amendGroup(cons, g, c_light, floor) ==
    LET E0 == cons[radEnergy_index(g)]
        E_r == IF RLt(E0, floor) THEN floor ELSE E0
        Fx == cons[x1RadFlux_index(g)]
        Fy == cons[x2RadFlux_index(g)]
        Fz == cons[x3RadFlux_index(g)]
        F2 == RAdd(RAdd(Sq(Fx), Sq(Fy)), Sq(Fz))
        Fnorm == RSqrt(F2)
        rescale == RGt(F2, RMul(RMul(RMul(c_light, c_light), E_r), E_r))
        fix(F) == IF rescale THEN RMul(RMul(RDiv(F, Fnorm), c_light), E_r) ELSE F
    IN  <<E_r, fix(Fx), fix(Fy), fix(Fz)>>

amendRadState(cons, c_light, floor) ==
    [n \in HypVars |->
        LET g == ((n - 1) \div numRadVars) + 1
            k == ((n - 1) % numRadVars) + 1
        IN  amendGroup(cons, g, c_light, floor)[k]]

\* isStateValid / amendRadState as both stages apply them before committing
enforceValidity(cons, c_light, floor) ==
    IF ~isStateValid(cons, c_light) THEN amendRadState(cons, c_light, floor) ELSE cons

-----------------------------------------------------------------------------
(* Hyperbolic stages on a periodic 1-D domain                              *)
(*                                                                         *)
(* AMREX_ASSERT is compiled out unless AMREX_DEBUG is set.  The model      *)
(* records a failed AMREX_ASSERT(isStateValid(cons)) in hassert and goes   *)
(* on as the release build does; the debug build stops at the first        *)
(* recorded failure, so its runs are prefixes of the runs modelled here.   *)

\* the flux difference with the sign of the outgoing face flipped
FluxDivSameSign(flux, i, n, dt, dx) == RMul(RDiv(dt, dx), RAdd(flux[i][n], flux[i + 1][n]))

\* (dt / dx) * (flux(i) - flux(i + 1)): the flux divergence of cell i
FluxDiv(flux, i, n, dt, dx) == RMul(RDiv(dt, dx), RSub(flux[i][n], flux[i + 1][n]))

\* the cons array PredictStep computes for cell i before validity enforcement
PredictCons(U, flux, i, dt, dx) ==
    [n \in HypVars |-> RAdd(U[i][n], FluxDiv(flux, i, n, dt, dx))]

\* a variant of the combination below whose old-flux coefficient is 0.5
RK2CombinePlainHalf(a32, U_0, U_1, FxU_0, FxU_1) ==
    RAdd(RAdd(RAdd(RMul(RSub(One, a32), U_0), RMul(a32, U_1)), RMul(Half, FxU_0)),
         RMul(Half, FxU_1))

\* (1 - a32) * U_0 + a32 * U_1 + (0.5 - a32) * FxU_0 + 0.5 * FxU_1, the
\* combination AddFluxesRK2 forms with a32 = IMEX_a32
RK2Combine(a32, U_0, U_1, FxU_0, FxU_1) ==
    RAdd(RAdd(RAdd(RMul(RSub(One, a32), U_0), RMul(a32, U_1)),
              RMul(RSub(Half, a32), FxU_0)),
         RMul(Half, FxU_1))

\* a variant of the array below that takes U1 from the next cell
RK2ConsNextCell(U0, U1, fOld, fNew, i, dt, dx) ==
    [n \in HypVars |->
        RAdd(RAdd(RAdd(RMul(RSub(One, IMEX_a32), U0[i][n]),
                       RMul(IMEX_a32, U1[(i % NCells) + 1][n])),
                  RMul(RSub(Half, IMEX_a32), FluxDiv(fOld, i, n, dt, dx))),
             RMul(Half, FluxDiv(fNew, i, n, dt, dx)))]

\* the cons_new array AddFluxesRK2 computes for cell i before enforcement
RK2Cons(U0, U1, fOld, fNew, i, dt, dx) ==
    [n \in HypVars |->
        RK2Combine(IMEX_a32, U0[i][n], U1[i][n], FluxDiv(fOld, i, n, dt, dx),
                   FluxDiv(fNew, i, n, dt, dx))]

\* Sample inputs.  Every flux vector of one run is a multiple of one direction,
\* so that every norm the stages take is the root of a perfect square.
Directions == { <<1, 0, 0>>, <<2, -3, 6>> }

\* sample radiation states of one group, <<E_r, s>> with F = s * direction;
\* each is valid for every direction (|F| <= c * E_r with c = 1)
GroupStates == << <<4, 0>>, <<7, 1>>, <<9, -1>>, <<14, 2>>, <<7, -1>> >>

\* sample face fluxes of one group, <<flux of E_r, s>> with flux of F = s * direction
FaceFluxes == << <<0, 0>>, <<2, 0>>, <<6, 2>>, <<1, -3>>, <<-4, 1>> >>

Pick(samples, k) == samples[(k % Len(samples)) + 1]

\* the four components <<E, s*d[1], s*d[2], s*d[3]>> of a sample
Expand(sample, d) == <<I(sample[1]), I(sample[2] * d[1]), I(sample[2] * d[2]), I(sample[2] * d[3])>>

\* a cell-centred array: cell i, group g holds GroupStates sample i + 2g + shift
CellPattern(shift, d) ==
    [i \in Cells |->
        [n \in HypVars |->
            LET g == ((n - 1) \div numRadVars) + 1
                k == ((n - 1) % numRadVars) + 1
            IN  Expand(Pick(GroupStates, i + 2 * g + shift), d)[k]]]

\* a face-centred array of a periodic domain: face NCells + 1 is face 1
FacePattern(shift, d) ==
    [f \in Faces |->
        [n \in HypVars |->
            LET g == ((n - 1) \div numRadVars) + 1
                k == ((n - 1) % numRadVars) + 1
            IN  Expand(Pick(FaceFluxes, 2 * ((f - 1) % NCells) + g + shift), d)[k]]]

StateShifts == 0..(Len(GroupStates) - 1)
FluxShifts == 0..(Len(FaceFluxes) - 1)
Flux2Shifts == {0, 2, 3}

HypConfigs ==
    [Erad_floor : {I(0), I(4)}, c_light : {I(1)}, dt : {I(1)}, dx : {I(1), I(2)},
     dir : Directions]

InitHyp ==
    /\ hcfg \in HypConfigs
    /\ \E s \in StateShifts : state_old = CellPattern(s, hcfg.dir)
    /\ state_new = state_old
    /\ \E s \in FluxShifts : fluxOld = FacePattern(s, hcfg.dir)
    /\ fluxNew = NoArray
    /\ hpc = "stage1"
    /\ hdone = {}
    /\ hamended = {}
    /\ hassert = {}
    /\ FluxIdle
    /\ SrcIdle
    /\ DriverIdle
    /\ PureIdle
    /\ LagIdle

\* one cell of PredictStep's ParallelFor
PredictStepCell(i) ==
    /\ hpc = "stage1"
    /\ i \notin hdone
    /\ LET c == hcfg.c_light
           floor == Erad_floor_(hcfg.Erad_floor)
           cons0 == PredictCons(state_old, fluxOld, i, hcfg.dt, hcfg.dx)
           amend == ~isStateValid(cons0, c)
           cons == enforceValidity(cons0, c, floor)
           ok == isStateValid(cons, c)
       IN  /\ hamended' = IF amend THEN hamended \cup {<<1, i>>} ELSE hamended
           /\ hassert' = IF ok THEN hassert ELSE hassert \cup {<<1, i>>}
           /\ state_new' = [state_new EXCEPT ![i] = cons]
           /\ hdone' = hdone \cup {i}
    /\ hpc' = hpc
    /\ UNCHANGED <<hcfg, state_old, fluxOld, fluxNew>>

\* between the stages the driver fills ghost zones and computes the stage-2
\* fluxes from the intermediate state
BeginStage2 ==
    /\ hpc = "stage1"
    /\ hdone = Cells
    /\ \E s \in Flux2Shifts : fluxNew' = FacePattern(s, hcfg.dir)
    /\ hpc' = "stage2"
    /\ hdone' = {}
    /\ UNCHANGED <<hcfg, state_old, state_new, fluxOld, hamended, hassert>>

\* one cell of AddFluxesRK2's ParallelFor; the driver passes state_new_ both
\* as U1 and as U_new.  fluxArrayOld is the stage-1 flux and fluxArray the
\* stage-2 flux (the driver in RadhydroSimulation.hpp predates the
\* fluxArrayOld parameter; its coefficient 0.5 - IMEX_a32 is zero).
AddFluxesRK2Cell(i) ==
    /\ hpc = "stage2"
    /\ i \notin hdone
    /\ LET c == hcfg.c_light
           floor == Erad_floor_(hcfg.Erad_floor)
           cons0 == RK2Cons(state_old, state_new, fluxOld, fluxNew, i, hcfg.dt, hcfg.dx)
           amend == ~isStateValid(cons0, c)
           cons == enforceValidity(cons0, c, floor)
           ok == isStateValid(cons, c)
       IN  /\ hamended' = IF amend THEN hamended \cup {<<2, i>>} ELSE hamended
           /\ hassert' = IF ok THEN hassert ELSE hassert \cup {<<2, i>>}
           /\ state_new' = [state_new EXCEPT ![i] = cons]
           /\ hdone' = hdone \cup {i}
    /\ hpc' = hpc
    /\ UNCHANGED <<hcfg, state_old, fluxOld, fluxNew>>

EndStage2 ==
    /\ hpc = "stage2"
    /\ hdone = Cells
    /\ hpc' = "done"
    /\ UNCHANGED <<hcfg, state_old, state_new, fluxOld, fluxNew, hdone, hamended, hassert>>

NextHyp ==
    /\ \/ \E i \in Cells : PredictStepCell(i)
       \/ BeginStage2
       \/ \E i \in Cells : AddFluxesRK2Cell(i)
       \/ EndStage2
    /\ UNCHANGED <<fluxVars, srcVars, driverVars, pureVars, lagVars>>

SpecHyp == InitHyp /\ [][NextHyp]_vars

-----------------------------------------------------------------------------
(* Interface fluxes: ComputeFluxes<FluxDir::X1> (radiation_system.hpp)     *)
(*                                                                         *)
(* use_wavespeed_correction is false in the source; a run takes either    *)
(* that build or the build with the correction switched on, where         *)
(* epsilon[0] = min(1, 1 / tau_cell) at the faces of even index sum.       *)

\* offsets of the components of group g in a primitive array (primVarIndex)
primRadEnergy_index(g) == 1 + numRadVars * (g - 1)
x1ReducedFlux_index(g) == 2 + numRadVars * (g - 1)
x2ReducedFlux_index(g) == 3 + numRadVars * (g - 1)
x3ReducedFlux_index(g) == 4 + numRadVars * (g - 1)

use_wavespeed_correction == FALSE

\* clamp(v, lo, hi)
clamp(v, lo, hi) == IF RLt(v, lo) THEN lo ELSE IF RLt(hi, v) THEN hi ELSE v

\* Levermore (1984) closure
ComputeEddingtonFactor(f_in) ==
    Only({ RDiv(RAdd(I(3), RMul(I(4), f2)), RAdd(I(5), RMul(Two, RSqrt(RSub(I(4), RMul(I(3), f2))))))
           : f2 \in {Sq(clamp(f_in, Zero, One))} })

\* T[ii][jj] = Tdiag * delta_ij + Tf * n[ii] * n[jj] for the unit vector n
\* and the Eddington factor chi
EddingtonTensorOf(n, chi) ==
    LET Tdiag == RDiv(RSub(One, chi), Two)
        Tf == RDiv(RSub(RMul(I(3), chi), One), Two)
    IN  [ii \in Dims |-> [jj \in Dims |->
            RAdd(RMul(Tdiag, IF ii = jj THEN One ELSE Zero), RMul(Tf, RMul(n[ii], n[jj])))]]

ComputeEddingtonTensor(fx, fy, fz) ==
    Only({ Only({ EddingtonTensorOf(n, chi)
                  : n \in {[ii \in Dims |-> IF RGt(f, Zero) THEN RDiv(<<fx, fy, fz>>[ii], f) ELSE Zero]},
                    chi \in {ComputeEddingtonFactor(f)} })
           : f \in {Norm3(fx, fy, fz)} })

\* a variant of the result below without the floor of the signal speed
ComputeRadPressureNoFloor(erad, Fx, Fy, Fz, fx, fy, fz) ==
    Only({ [F |-> <<Fx, RMul(T[1][1], erad), RMul(T[1][2], erad), RMul(T[1][3], erad)>>,
            S |-> RSqrt(T[1][1])]
           : T \in {ComputeEddingtonTensor(fx, fy, fz)} })

\* ComputeRadPressure<FluxDir::X1>: the flux vector F = {Fn, Tnx * erad,
\* Tny * erad, Tnz * erad} with Fn = Fx, and S = max(0.1, sqrt(Tnormal))
\* with Tnormal = T[0][0]
ComputeRadPressure(erad, Fx, Fy, Fz, fx, fy, fz) ==
    Only({ [F |-> <<Fx, RMul(T[1][1], erad), RMul(T[1][2], erad), RMul(T[1][3], erad)>>,
            S |-> RMax(Q(1, 10), RSqrt(T[1][1]))]
           : T \in {ComputeEddingtonTensor(fx, fy, fz)} })

\* the admissibility test with strict comparisons
useFirstOrderStrict(erad_L, erad_R, f_L, f_R) ==
    RLt(erad_L, Zero) \/ RLt(erad_R, Zero) \/ RGt(f_L, One) \/ RGt(f_R, One)

\* the admissibility test on the reconstructed states of one group
useFirstOrder(erad_L, erad_R, f_L, f_R) ==
    RLe(erad_L, Zero) \/ RLe(erad_R, Zero) \/ RGe(f_L, One) \/ RGe(f_R, One)

\* the states of group g the HLL formula is given at face i:
\* U = <<erad, Fx, Fy, Fz>> and the reduced flux f = <<fx, fy, fz>> on each side
GatherStates(left, right, cons, i, g, c_light) ==
    LET erad_L == left[i][primRadEnergy_index(g)]
        erad_R == right[i][primRadEnergy_index(g)]
        fx_L == left[i][x1ReducedFlux_index(g)]
        fx_R == right[i][x1ReducedFlux_index(g)]
        fy_L == left[i][x2ReducedFlux_index(g)]
        fy_R == right[i][x2ReducedFlux_index(g)]
        fz_L == left[i][x3ReducedFlux_index(g)]
        fz_R == right[i][x3ReducedFlux_index(g)]
        f_L == Norm3(fx_L, fy_L, fz_L)
        f_R == Norm3(fx_R, fy_R, fz_R)
        cE_L == RMul(c_light, erad_L)
        cE_R == RMul(c_light, erad_R)
        dE_L == cons[i - 1][radEnergy_index(g)]
        dE_R == cons[i][radEnergy_index(g)]
        dFx_L == cons[i - 1][x1RadFlux_index(g)]
        dFx_R == cons[i][x1RadFlux_index(g)]
        dFy_L == cons[i - 1][x2RadFlux_index(g)]
        dFy_R == cons[i][x2RadFlux_index(g)]
        dFz_L == cons[i - 1][x3RadFlux_index(g)]
        dFz_R == cons[i][x3RadFlux_index(g)]
        dcE_L == RMul(c_light, dE_L)
        dcE_R == RMul(c_light, dE_R)
    IN  IF useFirstOrder(erad_L, erad_R, f_L, f_R)
        THEN [U_L |-> <<dE_L, dFx_L, dFy_L, dFz_L>>,
              U_R |-> <<dE_R, dFx_R, dFy_R, dFz_R>>,
              f_L |-> <<RDiv(dFx_L, dcE_L), RDiv(dFy_L, dcE_L), RDiv(dFz_L, dcE_L)>>,
              f_R |-> <<RDiv(dFx_R, dcE_R), RDiv(dFy_R, dcE_R), RDiv(dFz_R, dcE_R)>>]
        ELSE [U_L |-> <<erad_L, RMul(fx_L, cE_L), RMul(fy_L, cE_L), RMul(fz_L, cE_L)>>,
              U_R |-> <<erad_R, RMul(fx_R, cE_R), RMul(fy_R, cE_R), RMul(fz_R, cE_R)>>,
              f_L |-> <<fx_L, fy_L, fz_L>>,
              f_R |-> <<fx_R, fy_R, fz_R>>]

\* F_L or F_R corrected for the reduced speed of light
ScaleFlux(F, c_light, c_hat) ==
    [n \in 1..numRadVars |->
        IF n = 1 THEN RMul(F[n], RDiv(c_hat, c_light)) ELSE RMul(F[n], RMul(c_hat, c_light))]

\* F = F_star of the frozen Eddington tensor approximation:
\* (S_R / (S_R - S_L)) * F_L - (S_L / (S_R - S_L)) * F_R
\*     + epsilon * (S_R * S_L / (S_R - S_L)) * (U_R - U_L)
HLLFormula(U_L, U_R, F_L, F_R, S_L, S_R, epsilon) ==
    Only({ [n \in 1..numRadVars |->
               RAdd(RSub(RMul(w[1], F_L[n]), RMul(w[2], F_R[n])),
                    RMul(RMul(epsilon[n], w[3]), RSub(U_R[n], U_L[n])))]
           : w \in {<<RDiv(S_R, RSub(S_R, S_L)), RDiv(S_L, RSub(S_R, S_L)),
                     RDiv(RMul(S_R, S_L), RSub(S_R, S_L))>>} })

\* the HLL flux of one group from the gathered states; epsilon scales the
\* dissipation term.  S_L has the sign -1; both speeds are scaled by c_hat.
HLLFlux(in, c_light, c_hat, epsilon) ==
    Only({ Only({ HLLFormula(in.U_L, in.U_R, F_L, F_R, S_L, S_R, epsilon)
                  : F_L \in {ScaleFlux(pL.F, c_light, c_hat)},
                    F_R \in {ScaleFlux(pR.F, c_light, c_hat)},
                    S_L \in {RMul(RMul(pL.S, I(-1)), c_hat)},
                    S_R \in {RMul(pR.S, c_hat)} })
           : pL \in {ComputeRadPressure(in.U_L[1], in.U_L[2], in.U_L[3], in.U_L[4],
                                        in.f_L[1], in.f_L[2], in.f_L[3])},
             pR \in {ComputeRadPressure(in.U_R[1], in.U_R[2], in.U_R[3], in.U_R[4],
                                        in.f_R[1], in.f_R[2], in.f_R[3])} })

\* ComputeCellOpticalDepth<FluxDir::X1>: the harmonic mean of the optical
\* depths dl * rho * kappaF of the two cells next to face i, for group g
ComputeCellOpticalDepth(rho, kappaF, dl, i, g) ==
    Only({ RDiv(RMul(RMul(t[1], t[2]), Two), RAdd(t[1], t[2]))
           : t \in {<<RMul(RMul(dl, rho[i - 1]), kappaF[g]), RMul(RMul(dl, rho[i]), kappaF[g])>>} })

\* std::min(1.0, x): x where x < 1.0, else 1.0
Min1(x) == IF RLt(x, One) THEN x ELSE One

\* a variant of the coefficients below that corrects every face and every component
WavespeedEpsilonEverywhere(on, indexSum, tau_cell) ==
    IF on
    THEN <<Min1(RDiv(One, tau_cell)), Min1(RDiv(One, tau_cell)), One, One>>
    ELSE <<One, One, One, One>>

\* epsilon of one group at one face: {S_corr, 1, 1, 1} with the correction on
\* and (i + j + k) % 2 == 0, else {1, 1, 1, 1}
WavespeedEpsilon(on, indexSum, tau_cell) ==
    IF on /\ indexSum % 2 = 0
    THEN <<Min1(RDiv(One, tau_cell)), One, One, One>>
    ELSE <<One, One, One, One>>

\* Sample inputs.  Every flux vector of a run is a multiple of one unit
\* vector (FluxConfigs), so that the reduced-flux norms are exact.

\* reconstructed states of one group, <<erad, a, b>> with f = (a / b) * direction:
\* admissible with |f| in {0, 3/7, 5/7}, erad <= 0, |f| = 1, |f| > 1
PrimStates == << <<4, 0, 1>>, <<7, 3, 7>>, <<0, 0, 1>>, <<5, 1, 1>>,
                 <<7, -5, 7>>, <<-2, 1, 2>>, <<3, 8, 7>> >>

\* conserved states of one group, <<E_r, s>> with F = s * direction
ConsStates == << <<4, 0>>, <<7, 3>>, <<7, -5>>, <<5, 5>> >>

ExpandPrim(sample, u) ==
    <<I(sample[1]), RMul(Q(sample[2], sample[3]), u[1]),
      RMul(Q(sample[2], sample[3]), u[2]), RMul(Q(sample[2], sample[3]), u[3])>>

ExpandCons(sample, u) ==
    <<I(sample[1]), RMul(I(sample[2]), u[1]), RMul(I(sample[2]), u[2]), RMul(I(sample[2]), u[3])>>

PrimPattern(shift, u) ==
    [f \in Faces |->
        [n \in HypVars |->
            LET g == ((n - 1) \div numRadVars) + 1
                k == ((n - 1) % numRadVars) + 1
            IN  ExpandPrim(Pick(PrimStates, f + 2 * g + shift), u)[k]]]

ConsPattern(shift, u) ==
    [i \in 0..(NCells + 1) |->
        [n \in HypVars |->
            LET g == ((n - 1) \div numRadVars) + 1
                k == ((n - 1) % numRadVars) + 1
            IN  ExpandCons(Pick(ConsStates, i + g + shift), u)[k]]]

LeftShifts == 0..(Len(PrimStates) - 1)
RightShifts == {0, 3}
ConsShifts == 0..(Len(ConsStates) - 1)

\* gas densities of the cells next to the faces, and the flux-mean opacities
\* of the groups (independent of rho and T)
GasDensities == <<0, 0, 2, 4, 1>>
FluxGasDensity(shift) == [i \in 0..(NCells + 1) |-> I(Pick(GasDensities, i + shift))]
FluxKappaF == [g \in Groups |-> I(g)]

\* wavespeed: the build (use_wavespeed_correction or the correction on);
\* jk: j + k of the row of faces
FluxConfigs ==
    { [c_light |-> p[1], c_hat |-> I(1), dir |-> p[2], wavespeed |-> b[1], jk |-> b[2], dx |-> I(1)]
      : p \in { <<I(1), <<I(1), I(0), I(0)>>>>, <<I(2), <<Q(2, 7), Q(-3, 7), Q(6, 7)>>>> },
        b \in { <<use_wavespeed_correction, 0>>, <<TRUE, 0>>, <<TRUE, 1>> } }
    \cup
    \* radiation streaming along the faces
    { [c_light |-> I(1), c_hat |-> I(1), dir |-> <<I(0), I(1), I(0)>>,
       wavespeed |-> use_wavespeed_correction, jk |-> 0, dx |-> I(1)] }

InitFlux ==
    /\ fxcfg \in FluxConfigs
    /\ \E s \in ConsShifts : consVar = ConsPattern(s, fxcfg.dir)
    /\ \E s \in LeftShifts : x1LeftState = PrimPattern(s, fxcfg.dir)
    /\ \E s \in RightShifts : x1RightState = PrimPattern(s, fxcfg.dir)
    /\ x1Flux = [f \in Faces |-> NoArray]
    /\ x1FluxDiffusive = [f \in Faces |-> NoArray]
    /\ hllInputs = [f \in Faces |-> NoArray]
    /\ fxdone = {}
    /\ HypIdle
    /\ SrcIdle
    /\ DriverIdle
    /\ PureIdle
    /\ LagIdle

\* one face of ComputeFluxes' ParallelFor: the loop over the groups
ComputeFluxesFace(i) ==
    /\ i \notin fxdone
    /\ LET c == fxcfg.c_light
           chat == fxcfg.c_hat
           rho == FluxGasDensity(fxcfg.jk)
           tau_cell == [g \in Groups |->
                           IF fxcfg.wavespeed
                           THEN ComputeCellOpticalDepth(rho, FluxKappaF, fxcfg.dx, i, g)
                           ELSE Zero]
           epsilon == [g \in Groups |-> WavespeedEpsilon(fxcfg.wavespeed, i + fxcfg.jk, tau_cell[g])]
           ones == <<One, One, One, One>>
           flat(A) == [n \in HypVars |->
                          A[((n - 1) \div numRadVars) + 1][((n - 1) % numRadVars) + 1]]
       IN  \E in \in {[g \in Groups |-> GatherStates(x1LeftState, x1RightState, consVar, i, g, c)]} :
           \E F \in {[g \in Groups |-> HLLFlux(in[g], c, chat, epsilon[g])]} :
           \E diffusiveF \in {[g \in Groups |-> HLLFlux(in[g], c, chat, ones)]} :
               /\ hllInputs' = [hllInputs EXCEPT ![i] = in]
               /\ x1Flux' = [x1Flux EXCEPT ![i] = flat(F)]
               /\ x1FluxDiffusive' = [x1FluxDiffusive EXCEPT ![i] = flat(diffusiveF)]
    /\ fxdone' = fxdone \cup {i}
    /\ UNCHANGED <<fxcfg, consVar, x1LeftState, x1RightState>>

NextFlux ==
    /\ \E i \in Faces : ComputeFluxesFace(i)
    /\ UNCHANGED <<hypVars, srcVars, driverVars, pureVars, lagVars>>

SpecFlux == InitFlux /\ [][NextFlux]_vars

-----------------------------------------------------------------------------
(* Implicit matter-radiation exchange of one cell: AddSourceTerms           *)
(* (radiation_system.hpp), with gamma_ != 1, the user opacity model,       *)
(* include_work_term_in_source and use_D_as_base, and beta_order 0 or 1.   *)
(*                                                                         *)
(* A tolerance test x < 10^-k is decided exactly (LtPow10).                *)

include_work_term_in_source == TRUE
use_D_as_base == TRUE

\* caps of the outer loop and of the Newton-Raphson loop
max_ite == 5
maxIter == 400

\* resid_tol = 1.0e-11 and lag_tol = 1.0e-13, as negative powers of ten
resid_tol_exp == 11
lag_tol_exp == 13

\* x < 10^-k
RECURSIVE LtPow10(_, _)
LtPow10(x, k) ==
    IF IsNaN(x) THEN FALSE
    ELSE IF RLe(x, Zero) THEN TRUE
    ELSE IF RGe(x, One) THEN FALSE
    ELSE IF k = 0 THEN TRUE
    ELSE LtPow10(RMul(I(10), x), k - 1)

\* x = 10^-k
RECURSIVE EqPow10(_, _)
EqPow10(x, k) ==
    IF k = 0 THEN x = One
    ELSE IF IsNaN(x) \/ RLe(x, Zero) \/ RGe(x, One) THEN FALSE
    ELSE EqPow10(RMul(I(10), x), k - 1)

\* x <= 10^-k * y, for finite x and y
LePow10Times(x, k, y) ==
    IF IsNaN(x) \/ IsNaN(y) THEN FALSE
    ELSE IF y = Zero THEN RLe(x, Zero)
    ELSE IF RLt(y, Zero) THEN ~LtPow10(RDiv(x, y), k)
    ELSE LtPow10(RDiv(x, y), k) \/ EqPow10(RDiv(x, y), k)

VSum(v) == RSum(v, Groups)
VAbsSum(v) == RSum([g \in Groups |-> RAbs(v[g])], Groups)
Dot3(a, b) == RAdd(RAdd(RMul(a[1], b[1]), RMul(a[2], b[2])), RMul(a[3], b[3]))

\* quokka::EOS (EOS.hpp): T = Eint / (rho * c_v) and dEint/dT = rho * c_v
ComputeTgasFromEint(rho, Eint, c_v) == RDiv(Eint, RMul(rho, c_v))
ComputeEintTempDerivative(rho, c_v) == RMul(rho, c_v)

ComputeEintFromEgas(density, mom, Etot) ==
    RSub(Etot, RDiv(Dot3(mom, mom), RMul(Two, density)))

ComputeEgasFromEint(density, mom, Eint) ==
    RAdd(Eint, RDiv(Dot3(mom, mom), RMul(Two, density)))

\* The Planck integral is outside these sources.  One group holds the whole
\* spectrum; with more groups the model splits it evenly, normalised to 1.
ComputePlanckEnergyFractions(temperature) == [g \in Groups |-> Q(1, NGroups)]

\* a_r * T^4 * radEnergyFractions, floored at Erad_floor_
ComputeThermalRadiation(cfg, temperature) ==
    Only({ [g \in Groups |->
               LET e == RMul(power, ComputePlanckEnergyFractions(temperature)[g])
               IN  IF RLt(e, Erad_floor_(cfg.Erad_floor)) THEN Erad_floor_(cfg.Erad_floor) ELSE e]
           : power \in {IF cfg.a_rad = Zero /\ IsFinite(temperature) THEN Zero
                        ELSE RMul(cfg.a_rad, RPowNat(temperature, 4))} })

\* 4 * emission / T
ComputeThermalRadiationTempDerivative(cfg, temperature) ==
    Only({ [g \in Groups |-> RDiv(RMul(I(4), erad[g]), temperature)]
           : erad \in {ComputeThermalRadiation(cfg, temperature)} })

\* The opacities are user functions of rho and T.  cfg.opac gives them as a
\* step in T: below Tcrit the row cold, else the row hot; each row holds the
\* triple <<kappa_P, kappa_E, kappa_F>> of the odd and of the even groups.
OpacityRow(cfg, T_gas, g) ==
    LET row == IF RLt(T_gas, cfg.opac.Tcrit) THEN cfg.opac.cold ELSE cfg.opac.hot
    IN  IF g % 2 = 1 THEN row.odd ELSE row.even

ComputePlanckOpacity(cfg, T_gas) == [g \in Groups |-> OpacityRow(cfg, T_gas, g)[1]]
ComputeEnergyMeanOpacity(cfg, T_gas) == [g \in Groups |-> OpacityRow(cfg, T_gas, g)[2]]
ComputeFluxMeanOpacity(cfg, T_gas) == [g \in Groups |-> OpacityRow(cfg, T_gas, g)[3]]

\* kappaPoverE[g] = kappaP / kappaE, or 1 when kappaE is not positive
ComputeKappaPoverE(kappaPVec, kappaEVec) ==
    [g \in Groups |-> IF RGt(kappaEVec[g], Zero) THEN RDiv(kappaPVec[g], kappaEVec[g]) ELSE One]

\* Solve3x3matrix; C[i + 1][j + 1] is Cij and Y[i + 1] is Yi
Solve3x3matrix(C, Y) ==
    LET C00 == C[1][1]
        C01 == C[1][2]
        C02 == C[1][3]
        C10 == C[2][1]
        C11 == C[2][2]
        C12 == C[2][3]
        C20 == C[3][1]
        C21 == C[3][2]
        C22 == C[3][3]
        E11 == RSub(C11, RDiv(RMul(C01, C10), C00))
        E12 == RSub(C12, RDiv(RMul(C02, C10), C00))
        E21 == RSub(C21, RDiv(RMul(C01, C20), C00))
        E22 == RSub(C22, RDiv(RMul(C02, C20), C00))
        Z1 == RSub(Y[2], RDiv(RMul(Y[1], C10), C00))
        Z2 == RSub(Y[3], RDiv(RMul(Y[1], C20), C00))
        X2 == RDiv(RSub(Z2, RDiv(RMul(Z1, E21), E11)), RSub(E22, RDiv(RMul(E12, E21), E11)))
        X1 == RDiv(RSub(Z1, RMul(E12, X2)), E11)
        X0 == RDiv(RSub(RSub(Y[1], RMul(C01, X1)), RMul(C02, X2)), C00)
    IN  <<X0, X1, X2>>

\* a variant of the solver below that ignores the first row when it forms x0
SolveLinearEqsNoElimination(a00, a0i, ai0, aii, y0, yi) ==
    Only({ [x0 |-> x0, xi |-> [g \in Groups |-> RDiv(RSub(yi[g], RMul(ai0[g], x0)), aii[g])]]
           : x0 \in {RDiv(y0, a00)} })

\* x0 and xi of the system with non-zeros in the first row, the first column
\* and the diagonal
SolveLinearEqs(a00, a0i, ai0, aii, y0, yi) ==
    Only({ Only({ [x0 |-> x0, xi |-> [g \in Groups |-> RDiv(RSub(yi[g], RMul(ai0[g], x0)), aii[g])]]
                  : x0 \in {RDiv(RAdd(RNeg(VSum([g \in Groups |-> RMul(ratios[g], yi[g])])), y0),
                                 RAdd(RNeg(VSum([g \in Groups |-> RMul(ratios[g], ai0[g])])), a00))} })
           : ratios \in {[g \in Groups |-> RDiv(a0i[g], aii[g])]} })

\* a variant that scales dt at stage 1 instead
SourceDtStage1(cfg) ==
    IF cfg.stage = 1 THEN RMul(IMEX_a32, cfg.dt_radiation) ELSE cfg.dt_radiation

\* dt = (1 - IMEX_a32) * dt_radiation at stage 2, else dt_radiation
SourceDt(cfg) ==
    IF cfg.stage = 2 THEN RMul(RSub(One, IMEX_a32), cfg.dt_radiation) ELSE cfg.dt_radiation

\* gas_update_factor = IMEX_a32 at stage 1, else 1
gas_update_factor(cfg) == IF cfg.stage = 1 THEN IMEX_a32 ELSE One

\* Src[g] = dt * (chat * radEnergySource(g))
SrcVec(cfg, source) == [g \in Groups |-> RMul(SourceDt(cfg), RMul(cfg.chat, source[g]))]

Erad0Vec(cons) == [g \in Groups |-> cons.rad[g][1]]

Egas0Of(cons) == ComputeEintFromEgas(cons.rho, cons.mom, cons.Egas)

\* Etot0 = Egas0 + (c / chat) * (Erad0 + sum(Src))
Etot0Of(cfg, cons, source) ==
    RAdd(Egas0Of(cons),
         RMul(RDiv(cfg.c, cfg.chat), RAdd(VSum(Erad0Vec(cons)), VSum(SrcVec(cfg, source)))))

\* lorentz_factor and lorentz_factor_v for beta_order 0..3
lorentz_factor(cfg, betaSqr) ==
    IF cfg.beta_order \in {0, 1} THEN One ELSE RAdd(One, RMul(Half, betaSqr))

lorentz_factor_v(cfg, betaSqr) ==
    IF cfg.beta_order \in {0, 1, 2} THEN One ELSE RAdd(One, RMul(Half, betaSqr))

betaSqrOf(cfg, cons) ==
    RDiv(Dot3(cons.mom, cons.mom), RMul(RMul(cons.rho, cons.rho), RMul(cfg.c, cfg.c)))

\* work[g] = (mom . F_g) * (2 kappaE - kappaF) * chat / (c * c) * lorentz_factor_v * dt
WorkTerm(cfg, mom, F, kappaE, kappaF, lfv) ==
    RMul(RMul(Dot3(mom, F), RSub(RMul(Two, kappaE), kappaF)),
         RMul(RMul(RDiv(cfg.chat, RMul(cfg.c, cfg.c)), lfv), SourceDt(cfg)))

\* Sample inputs.  The Newton iteration is exact in rationals where the
\* emission does not depend on T: with a_rad = 0 and no floor (absorption
\* only), or where no group exchanges energy (kappa_P = kappa_E = 0).
Row(t) == [odd |-> <<I(t[1]), I(t[2]), I(t[3])>>, even |-> <<I(t[4]), I(t[5]), I(t[6])>>]

\* an opacity that does not depend on T
Constant(t) == [Tcrit |-> Zero, cold |-> Row(t), hot |-> Row(t)]

Grey == Constant(<<1, 1, 1, 1, 1, 1>>)
ThinFlux == Constant(<<2, 2, 1, 2, 2, 1>>)
Scatter == Constant(<<0, 0, 2, 0, 0, 2>>)
Mixed == Constant(<<1, 1, 1, 0, 0, 1>>)
Ratio == Constant(<<1, 2, 2, 1, 2, 2>>)
\* even groups emit (Planck opacity 1) but have no energy-mean opacity
Emit == Constant(<<1, 1, 1, 1, 0, 1>>)
Step == [Tcrit |-> I(5), cold |-> Row(<<2, 2, 2, 2, 2, 2>>), hot |-> Row(<<1, 1, 1, 1, 1, 1>>)]

\* a flux-mean opacity that drops where the gas is hotter than Tcrit
Cycle == [Tcrit |-> Q(108, 5), cold |-> Row(<<4, 4, 2, 4, 4, 2>>), hot |-> Row(<<4, 4, 1, 4, 4, 1>>)]

\* radiation of the odd and the even groups, <<E_r, Fx>> with Fy = Fz = 0
RadStill == <<4, 0, 6, 0>>
RadBeam == <<4, 4, 6, -3>>
RadDrift == <<6, 2, 4, 1>>
RadFree == <<1, 2, 1, 2>>

RadOf(t) ==
    [g \in Groups |-> IF g % 2 = 1 THEN <<I(t[1]), I(t[2]), Zero, Zero>>
                                   ELSE <<I(t[3]), I(t[4]), Zero, Zero>>]

SourceOf(t) == [g \in Groups |-> IF g % 2 = 1 THEN I(t[1]) ELSE I(t[2])]

\* the mass scalars of the sample cells (scalar0_index onwards)
MassScalars == <<Q(1, 4), Q(3, 4)>>

\* the components of a cell with internal energy Eint
CellOf(rho, mom, Eint, rad) ==
    [rho |-> rho, mom |-> mom, Egas |-> ComputeEgasFromEint(rho, mom, Eint), Eint |-> Eint,
     scalars |-> MassScalars, rad |-> RadOf(rad)]

SrcTraits ==
    [c : {I(1), I(2)}, chat : {I(1)}, a_rad : {Zero}, Erad_floor : {Zero}, c_v : {One},
     beta_order : {0, 1}, opac : {Grey, ThinFlux, Scatter, Mixed, Ratio, Emit},
     dt_radiation : {I(2)}, stage : {1, 2}]
    \cup
    [c : {I(1)}, chat : {I(1)}, a_rad : {Zero}, Erad_floor : {Zero}, c_v : {One},
     beta_order : {1}, opac : {Step}, dt_radiation : {I(1), I(2)}, stage : {1, 2}]
    \cup
    [c : {I(1)}, chat : {I(1)}, a_rad : {One}, Erad_floor : {Zero, I(4)}, c_v : {One},
     beta_order : {1}, opac : {Scatter}, dt_radiation : {I(2)}, stage : {1, 2}]
    \cup
    [c : {I(2)}, chat : {I(1)}, a_rad : {Zero}, Erad_floor : {Zero}, c_v : {One},
     beta_order : {1}, opac : {Cycle}, dt_radiation : {I(2)}, stage : {2}]
    \cup
    [c : {I(2)}, chat : {I(1)}, a_rad : {Zero}, Erad_floor : {Zero}, c_v : {One},
     beta_order : {2}, opac : {Scatter}, dt_radiation : {I(2)}, stage : {1, 2}]

\* gas at rest with any of the radiation fields, or moving gas in a
\* radiation field without flux or against the beam of the even groups
SrcCells ==
    { CellOf(I(1), <<Zero, Zero, Zero>>, I(1), rad) : rad \in {RadStill, RadBeam, RadDrift} }
    \cup { CellOf(I(1), <<One, Zero, Zero>>, I(1), rad) : rad \in {RadStill, RadBeam} }

\* warm gas moving along a free-streaming beam (|F| = c E in every group)
BeamCell == CellOf(I(1), <<Half, Zero, Zero>>, I(20), RadFree)

\* warm gas moving obliquely (two nonzero velocity components) through
\* radiation at rest
SkewCell == CellOf(I(1), <<One, One, Zero>>, I(20), RadStill)

SrcSources == { SourceOf(<<0, 0>>), SourceOf(<<1, 2>>) }

InitSrc ==
    /\ scfg \in SrcTraits
    /\ IF scfg.opac = Cycle THEN sIn = BeamCell /\ sSrc = SourceOf(<<0, 0>>)
       ELSE IF scfg.beta_order = 2 THEN sIn = SkewCell /\ sSrc = SourceOf(<<0, 0>>)
       ELSE /\ sIn \in SrcCells
            /\ sIn.mom # <<Zero, Zero, Zero>> =>
                   \/ scfg.opac = Scatter /\ sIn.rad = RadOf(RadStill)
                   \/ /\ scfg.opac = Ratio /\ sIn.rad = RadOf(RadBeam)
                      /\ scfg.c = One /\ scfg.stage = 1
    /\ sCons = sIn
    /\ sSrc \in SrcSources
    /\ spc = "pass"
    /\ ite = 0
    /\ nIter = 0
    /\ Egas_guess = NaN
    /\ EradVec_guess = Erad0Vec(sIn)
    /\ Dvec = [g \in Groups |-> Zero]
    /\ tau0 = [g \in Groups |-> Zero]
    /\ work = [g \in Groups |-> Zero]
    /\ work_prev = [g \in Groups |-> Zero]
    /\ Rvec = [g \in Groups |-> Zero]
    /\ Frad_t1 = [g \in Groups |-> <<Zero, Zero, Zero>>]
    /\ dMomentum = <<Zero, Zero, Zero>>
    /\ sfail = "none"
    /\ HypIdle
    /\ FluxIdle
    /\ DriverIdle
    /\ PureIdle
    /\ LagIdle

\* the start of an outer pass, up to the Newton-Raphson loop
SrcPassBegin ==
    /\ spc = "pass"
    /\ ite < max_ite
    /\ \E dt \in {SourceDt(scfg)} :
       \E Egas0 \in {Egas0Of(sCons)} :
       \E lf \in {lorentz_factor(scfg, betaSqrOf(scfg, sCons))} :
       \E lfv \in {lorentz_factor_v(scfg, betaSqrOf(scfg, sCons))} :
       \E T_gas \in {ComputeTgasFromEint(sCons.rho, Egas0, scfg.c_v)} :
       \E fourPiBoverC \in {ComputeThermalRadiation(scfg, T_gas)} :
       \E kappaPVec \in {ComputePlanckOpacity(scfg, T_gas)} :
       \E kappaEVec \in {ComputeEnergyMeanOpacity(scfg, T_gas)} :
       \E kappaFVec \in {ComputeFluxMeanOpacity(scfg, T_gas)} :
       \E kappaPoverE \in {ComputeKappaPoverE(kappaPVec, kappaEVec)} :
       \E w \in {IF scfg.beta_order # 0 /\ include_work_term_in_source /\ ite = 0
                 THEN [g \in Groups |->
                          WorkTerm(scfg, sCons.mom, Tail(sCons.rad[g]), kappaEVec[g], kappaFVec[g], lfv)]
                 ELSE work} :
       \E t0 \in {[g \in Groups |->
                     RMul(RMul(RMul(RMul(dt, sCons.rho), kappaPVec[g]), scfg.chat), lf)]} :
       \E R \in {[g \in Groups |->
                    RAdd(RMul(RSub(fourPiBoverC[g], RDiv(Erad0Vec(sCons)[g], kappaPoverE[g])), t0[g]),
                         w[g])]} :
       \E t0f \in {[g \in Groups |-> IF RLe(t0[g], One) THEN One ELSE t0[g]]} :
           /\ Egas_guess' = Egas0
           /\ work' = w
           /\ tau0' = t0f
           /\ Rvec' = R
           /\ Dvec' = [g \in Groups |-> RDiv(R[g], t0f[g])]
    /\ nIter' = 0
    /\ spc' = "newton"
    /\ UNCHANGED <<scfg, sIn, sCons, sSrc, ite, EradVec_guess, work_prev, Frad_t1, dMomentum, sfail>>

\* the residual test that leaves the Newton-Raphson loop
ResidualsConverged(cfg, F_G, F_D_abs_sum, Etot0) ==
    /\ LtPow10(RAbs(RDiv(F_G, Etot0)), resid_tol_exp)
    /\ LtPow10(RDiv(RMul(RDiv(cfg.c, cfg.chat), F_D_abs_sum), Etot0), resid_tol_exp)

\* a variant of the update below without the branch on tau
EradGuessUnguarded(tau, kappaPoverE, fourPiBoverC, R, w, Eprev) ==
    RMul(kappaPoverE, RSub(fourPiBoverC, RDiv(RSub(R, w), tau)))

\* the radiation energy guess of one group: recomputed where tau > 0, kept
\* where tau = 0
EradGuessOf(tau, kappaPoverE, fourPiBoverC, R, w, Eprev) ==
    IF RGt(tau, Zero)
    THEN RMul(kappaPoverE, RSub(fourPiBoverC, RDiv(RSub(R, w), tau)))
    ELSE Eprev

\* one iteration of the Newton-Raphson loop
NewtonStep ==
    /\ spc = "newton"
    /\ nIter < maxIter
    /\ \E dt \in {SourceDt(scfg)} :
       \E lf \in {lorentz_factor(scfg, betaSqrOf(scfg, sCons))} :
       \E T_gas \in {ComputeTgasFromEint(sCons.rho, Egas_guess, scfg.c_v)} :
       \E fourPiBoverC \in {ComputeThermalRadiation(scfg, T_gas)} :
       \E kappaPVec \in {ComputePlanckOpacity(scfg, T_gas)} :
       \E kappaEVec \in {ComputeEnergyMeanOpacity(scfg, T_gas)} :
       \E kappaPoverE \in {ComputeKappaPoverE(kappaPVec, kappaEVec)} :
       \E tau \in {[g \in Groups |->
                      RMul(RMul(RMul(RMul(dt, sCons.rho), kappaEVec[g]), scfg.chat), lf)]} :
       \E R \in {[g \in Groups |-> RMul(tau0[g], Dvec[g])]} :
       \E Eguess \in {[g \in Groups |->
                         EradGuessOf(tau[g], kappaPoverE[g], fourPiBoverC[g], R[g], work[g],
                                     EradVec_guess[g])]} :
       \E Src \in {SrcVec(scfg, sSrc)} :
       \E F_D \in {[g \in Groups |->
                      RSub(RSub(Eguess[g], Erad0Vec(sCons)[g]), RAdd(R[g], Src[g]))]} :
       \E F_D_abs_sum \in {RSum([g \in Groups |->
                                    IF RGt(tau[g], Zero) THEN RAbs(F_D[g]) ELSE Zero], Groups)} :
       \E F_G \in {RAdd(RSub(Egas_guess, Egas0Of(sCons)),
                        RSum([g \in Groups |->
                                 IF RGt(tau[g], Zero)
                                 THEN RMul(RDiv(scfg.c, scfg.chat), R[g]) ELSE Zero], Groups))} :
           /\ EradVec_guess' = Eguess
           /\ Rvec' = R
           /\ IF ResidualsConverged(scfg, F_G, F_D_abs_sum, Etot0Of(scfg, sCons, sSrc))
              THEN /\ spc' = "newtonEnd"
                   /\ UNCHANGED <<nIter, Egas_guess, Dvec>>
              ELSE \E c_v \in {ComputeEintTempDerivative(sCons.rho, scfg.c_v)} :
                   \E dfourPiB_dTgas \in {[g \in Groups |->
                          RMul(scfg.chat, ComputeThermalRadiationTempDerivative(scfg, T_gas)[g])]} :
                   \E dFR_i_dD_i \in {[g \in Groups |->
                          RMul(IF RLe(tau[g], Zero) THEN NegInf
                               ELSE RMul(I(-1), RAdd(RMul(RDiv(One, tau[g]), kappaPoverE[g]), One)),
                               tau0[g])]} :
                   \E dFG_dD \in {[g \in Groups |-> RMul(RDiv(scfg.c, scfg.chat), tau0[g])]} :
                   \E dFR_dEgas \in {[g \in Groups |->
                          RMul(RMul(RDiv(One, c_v), kappaPoverE[g]),
                               RDiv(dfourPiB_dTgas[g], scfg.chat))]} :
                   \E sol \in {SolveLinearEqs(One, dFG_dD, dFR_dEgas, dFR_i_dD_i, RNeg(F_G),
                                              [g \in Groups |-> RMul(I(-1), F_D[g])])} :
                       /\ Egas_guess' = RAdd(Egas_guess, sol.x0)
                       /\ Dvec' = [g \in Groups |-> RAdd(Dvec[g], sol.xi[g])]
                       /\ nIter' = nIter + 1
                       /\ spc' = IF nIter + 1 < maxIter THEN "newton" ELSE "newtonEnd"
    /\ UNCHANGED <<scfg, sIn, sCons, sSrc, ite, tau0, work, work_prev, Frad_t1, dMomentum, sfail>>

\* the always-on assertions that follow the Newton-Raphson loop
NewtonAssertion(n, Egas, EradVec) ==
    IF ~(n < maxIter) THEN "Newton-Raphson iteration failed to converge!"
    ELSE IF ~RGt(Egas, Zero) THEN "Egas_guess > 0.0"
    ELSE IF ~(\A g \in Groups : RGe(EradVec[g], Zero)) THEN "min(EradVec_guess) >= 0.0"
    ELSE "none"

NewtonEnd ==
    /\ spc = "newtonEnd"
    /\ sfail' = NewtonAssertion(nIter, Egas_guess, EradVec_guess)
    /\ spc' = IF sfail' = "none" THEN "flux" ELSE "aborted"
    /\ UNCHANGED <<scfg, sIn, sCons, sSrc, ite, nIter, Egas_guess, EradVec_guess, Dvec, tau0,
                   work, work_prev, Rvec, Frad_t1, dMomentum>>

\* lorentz_factor_v_v: 1 for beta_order 2 and 3, left at its initial NAN for
\* beta_order 0 and 1
lorentz_factor_v_v(cfg) == IF cfg.beta_order \in {0, 1} THEN NaN ELSE One

\* the gasVel of the flux update: std::array<double, 3> gasVel{} is
\* value-initialised and nothing is assigned to it
gasVel == <<Zero, Zero, Zero>>

\* K0 of the 3x3 flux update
FluxK0(cfg, rho, kappaE, kappaF) ==
    RMul(RDiv(RDiv(RMul(RMul(RMul(RMul(Two, rho), cfg.chat), SourceDt(cfg)),
                        RSub(kappaF, kappaE)), cfg.c), cfg.c),
         RPowNat(lorentz_factor_v_v(cfg), 3))

\* the matrix A00 .. A22 handed to Solve3x3matrix
FluxMatrix(cfg, rho, kappaE, kappaF, F_coeff) ==
    [i \in Dims |->
        [j \in Dims |->
            RAdd(IF i = j THEN RAdd(One, F_coeff) ELSE Zero,
                 RMul(RMul(FluxK0(cfg, rho, kappaE, kappaF), gasVel[i]), gasVel[j]))]]

\* F_coeff = chat * rho * kappaF * dt * lorentz_factor
FluxCoeff(cfg, rho, kappaF, lf) ==
    RMul(RMul(RMul(RMul(cfg.chat, rho), kappaF), SourceDt(cfg)), lf)

\* the flux Frad_t1 of one group (gamma_ != 1): the plain relaxation for
\* beta_order 0; the implicit update with the velocity terms for beta_order 1
\* and for equal flux-mean and energy-mean opacities; the 3x3 solve otherwise
FluxOfGroup(cfg, rho, mom, Frad_t0, erad, B, kappaP, kappaE, kappaF, lf, lfv) ==
    IF cfg.beta_order = 0
    THEN [n \in Dims |->
             RDiv(Frad_t0[n],
                  RAdd(One, RMul(RMul(RMul(rho, kappaF), cfg.chat), SourceDt(cfg))))]
    ELSE Only({ Only({ IF cfg.beta_order = 1 \/ kappaF = kappaE
                       THEN [n \in Dims |->
                                RDiv(RAdd(Frad_t0[n], v_terms[n]),
                                     RAdd(One, FluxCoeff(cfg, rho, kappaF, lf)))]
                       ELSE Only({ [n \in Dims |-> sol[n]]
                                   : sol \in {Solve3x3matrix(
                                                 FluxMatrix(cfg, rho, kappaE, kappaF,
                                                            FluxCoeff(cfg, rho, kappaF, lf)),
                                                 [n \in Dims |-> RAdd(v_terms[n], Frad_t0[n])])} })
                       : v_terms \in {[n \in Dims |->
                    LET thermal == RMul(RMul(kappaP, B), lfv)
                        v0 == IF kappaF # kappaE
                              THEN RAdd(thermal, RMul(RMul(RSub(kappaF, kappaE), erad), RPowNat(lfv, 3)))
                              ELSE thermal
                        v_term == RMul(v0, RMul(RMul(cfg.chat, SourceDt(cfg)), mom[n]))
                        pressure_term ==
                            RMul(RAdd(RAdd(RMul(RMul(mom[1], Tedd[n][1]), erad),
                                           RMul(RMul(mom[2], Tedd[n][2]), erad)),
                                      RMul(RMul(mom[3], Tedd[n][3]), erad)),
                                 RMul(RMul(RMul(cfg.chat, SourceDt(cfg)), kappaF), lfv))
                    IN  RAdd(v_term, pressure_term)]} })
                : Tedd \in {ComputeEddingtonTensor(RDiv(Frad_t0[1], RMul(cfg.c, erad)),
                                                   RDiv(Frad_t0[2], RMul(cfg.c, erad)),
                                                   RDiv(Frad_t0[3], RMul(cfg.c, erad)))} })

\* the test that ends the outer loop after the work term was updated
WorkConverged(cfg, w, wprev, R, Etot0) ==
    LET dw == VAbsSum([g \in Groups |-> RSub(w[g], wprev[g])])
    IN  \/ VAbsSum(w) = Zero
        \/ LtPow10(RDiv(RMul(RDiv(cfg.c, cfg.chat), dw), Etot0), lag_tol_exp)
        \/ LePow10Times(dw, lag_tol_exp, VSum(R))

\* the rest of an outer pass: the flux update, the momentum update, the work
\* term and the convergence test of the outer loop
FluxUpdate ==
    /\ spc = "flux"
    /\ \E lf \in {lorentz_factor(scfg, betaSqrOf(scfg, sCons))} :
       \E lfv \in {lorentz_factor_v(scfg, betaSqrOf(scfg, sCons))} :
       \E T_gas \in {ComputeTgasFromEint(sCons.rho, Egas_guess, scfg.c_v)} :
       \E fourPiBoverC \in {ComputeThermalRadiation(scfg, T_gas)} :
       \E kappaPVec \in {ComputePlanckOpacity(scfg, T_gas)} :
       \E kappaEVec \in {ComputeEnergyMeanOpacity(scfg, T_gas)} :
       \E kappaFVec \in {ComputeFluxMeanOpacity(scfg, T_gas)} :
       \E F1 \in {[g \in Groups |->
                     FluxOfGroup(scfg, sCons.rho, sCons.mom, Tail(sCons.rad[g]), EradVec_guess[g],
                                 fourPiBoverC[g], kappaPVec[g], kappaEVec[g], kappaFVec[g], lf, lfv)]} :
       \E dMom \in {[n \in Dims |->
                       RSum([g \in Groups |->
                                RNeg(RDiv(RSub(F1[g][n], sCons.rad[g][n + 1]),
                                          RMul(scfg.c, scfg.chat)))], Groups)]} :
       \E GasMom1 \in {[n \in Dims |-> RAdd(sCons.mom[n], dMom[n])]} :
       \E Ekin0 \in {RSub(sCons.Egas, Egas0Of(sCons))} :
       \E Ekin1 \in {RSub(ComputeEgasFromEint(sCons.rho, GasMom1, Egas_guess), Egas_guess)} :
       \E w \in {[g \in Groups |->
                    WorkTerm(scfg, GasMom1, F1[g], kappaEVec[g], kappaFVec[g], lfv)]} :
           /\ Frad_t1' = F1
           /\ dMomentum' = <<dMom[1], dMom[2], dMom[3]>>
           /\ IF scfg.beta_order = 0 \/ ~include_work_term_in_source
              THEN /\ UNCHANGED <<Egas_guess, work, work_prev, ite>>
                   /\ spc' = "outerEnd"
              ELSE /\ Egas_guess' = RSub(Egas_guess, RSub(Ekin1, Ekin0))
                   /\ work_prev' = work
                   /\ work' = w
                   /\ IF WorkConverged(scfg, w, work, Rvec, Etot0Of(scfg, sCons, sSrc))
                      THEN ite' = ite /\ spc' = "outerEnd"
                      ELSE ite' = ite + 1 /\ spc' = IF ite + 1 < max_ite THEN "pass" ELSE "outerEnd"
    /\ UNCHANGED <<scfg, sIn, sCons, sSrc, nIter, EradVec_guess, Dvec, tau0, Rvec, sfail>>

\* a variant of the store below that also writes the density and the mass scalars
StoredCellAllComponents(cfg, cons, Egas, EradVec, F1, dMom) ==
    [rho |-> RAdd(cons.rho, RSum([g \in Groups |-> RSub(EradVec[g], cons.rad[g][1])], Groups)),
     mom |-> <<RAdd(cons.mom[1], dMom[1]), RAdd(cons.mom[2], dMom[2]), RAdd(cons.mom[3], dMom[3])>>,
     Egas |-> Egas, Eint |-> Egas,
     scalars |-> [k \in DOMAIN cons.scalars |-> Zero],
     rad |-> [g \in Groups |-> <<EradVec[g], F1[g][1], F1[g][2], F1[g][3]>>]]

\* the components AddSourceTerms stores: the gas momentum and the gas energy
\* change scaled by gas_update_factor, the radiation energy and flux in full
StoredCell(cfg, cons, Egas, EradVec, F1, dMom) ==
    LET guf == gas_update_factor(cfg)
        GasMom1 == <<RAdd(cons.mom[1], RMul(dMom[1], guf)), RAdd(cons.mom[2], RMul(dMom[2], guf)),
                     RAdd(cons.mom[3], RMul(dMom[3], guf))>>
        Egas0 == Egas0Of(cons)
        Eint == RAdd(Egas0, RMul(RSub(Egas, Egas0), guf))
    IN  [cons EXCEPT !.mom = GasMom1,
                     !.Egas = ComputeEgasFromEint(cons.rho, GasMom1, Eint),
                     !.Eint = Eint,
                     !.rad = [g \in Groups |-> <<EradVec[g], F1[g][1], F1[g][2], F1[g][3]>>]]

\* a variant without the assertion after the outer loop
OuterAssertionOff(passes) == "none"

\* the always-on assertion after the outer loop
OuterAssertion(passes) ==
    IF passes < max_ite THEN "none" ELSE "AddSourceTerms iteration failed to converge!"

\* a variant that stores into consNew before the assertion after the outer loop
OuterEndStoresFirst ==
    /\ spc = "outerEnd"
    /\ sfail' = OuterAssertion(ite)
    /\ sCons' = StoredCell(scfg, sCons, Egas_guess, EradVec_guess, Frad_t1, dMomentum)
    /\ spc' = IF sfail' = "none" THEN "stored" ELSE "aborted"
    /\ UNCHANGED <<scfg, sIn, sSrc, ite, nIter, Egas_guess, EradVec_guess, Dvec, tau0,
                   work, work_prev, Rvec, Frad_t1, dMomentum>>

\* the assertion after the outer loop, then the store into consNew
OuterEnd ==
    /\ spc = "outerEnd"
    /\ sfail' = OuterAssertion(ite)
    /\ IF sfail' = "none"
       THEN /\ sCons' = StoredCell(scfg, sCons, Egas_guess, EradVec_guess, Frad_t1, dMomentum)
            /\ spc' = "stored"
       ELSE /\ sCons' = sCons
            /\ spc' = "aborted"
    /\ UNCHANGED <<scfg, sIn, sSrc, ite, nIter, Egas_guess, EradVec_guess, Dvec, tau0,
                   work, work_prev, Rvec, Frad_t1, dMomentum>>

NextSrc ==
    /\ \/ SrcPassBegin
       \/ NewtonStep
       \/ NewtonEnd
       \/ FluxUpdate
       \/ OuterEnd
    /\ UNCHANGED <<hypVars, fluxVars, driverVars, pureVars, lagVars>>

SpecSrc == InitSrc /\ [][NextSrc]_vars

-----------------------------------------------------------------------------
(* Radiation subcycle of one level (RadhydroSimulation.hpp):               *)
(* subcycleRadiationAtLevel and advanceSingleTimestepAtLevelRadiation.     *)
(* The data of a grid is tracked by what wrote it last: the valid cells of *)
(* state_new_ hold <<substep, contents>>, and each operation records what  *)
(* it found in the arrays it read.                                         *)

NGrids == 2
MaxDtHydro == 5
MaxDtRad == 3

Grids == 1..NGrids

\* std::ceil(a / b) for positive integers
CeilDiv(a, b) == (a + b - 1) \div b

NoVersion == <<-1, "none">>

\* the valid cells of state_old_: the state at the beginning of the level
\* timestep, put there by the swap of advanceSingleTimestepAtLevel; nothing
\* in the radiation subcycle writes state_old_
OldValid == <<-1, "timestepStart">>

DriverConfigs ==
    [is_hydro_enabled_ : BOOLEAN, dt_lev_hydro : 1..MaxDtHydro, dtrad_tmp : 1..MaxDtRad]

InitDriver ==
    /\ dcfg \in DriverConfigs
    /\ dpc = "subcycle"
    /\ nsubSteps = 0
    /\ dt_radiation = NaN
    /\ isub = 0
    /\ giter = 0
    /\ oldGhost = -1
    /\ newValid = [g \in Grids |-> <<-1, "hydro">>]
    /\ newGhost = [g \in Grids |-> NoVersion]
    /\ s1Read = [g \in Grids |-> [sub |-> -1, ghost |-> -1, valid |-> NoVersion]]
    /\ s2Read = [g \in Grids |-> [sub |-> -1, valid |-> NoVersion, ghost |-> [h \in Grids |-> NoVersion]]]
    /\ srcRead = [g \in Grids |-> [sub |-> -1, new |-> [h \in Grids |-> NoVersion]]]
    /\ frInc = [g \in Grids |-> 0]
    /\ HypIdle
    /\ FluxIdle
    /\ SrcIdle
    /\ PureIdle
    /\ LagIdle

\* a variant of the step below that rounds the number of substeps down
SubcycleBeginRoundedDown ==
    /\ dpc = "subcycle"
    /\ \E n \in {IF dcfg.is_hydro_enabled_ THEN dcfg.dt_lev_hydro \div dcfg.dtrad_tmp ELSE 0} :
       \E dt \in {IF dcfg.is_hydro_enabled_ THEN RDiv(I(dcfg.dt_lev_hydro), I(n)) ELSE NaN} :
           /\ nsubSteps' = n
           /\ dt_radiation' = dt
           /\ dpc' = IF n >= 1 /\ n < 10000 /\ RGt(dt, Zero) THEN "fillOld" ELSE "aborted"
    /\ isub' = 0
    /\ UNCHANGED <<dcfg, giter, oldGhost, newValid, newGhost, s1Read, s2Read, srcRead, frInc>>

\* subcycleRadiationAtLevel up to its loop: the number of substeps, the
\* radiation timestep and the three always-on assertions
SubcycleBegin ==
    /\ dpc = "subcycle"
    /\ \E n \in {IF dcfg.is_hydro_enabled_ THEN CeilDiv(dcfg.dt_lev_hydro, dcfg.dtrad_tmp) ELSE 0} :
       \E dt \in {IF dcfg.is_hydro_enabled_ THEN RDiv(I(dcfg.dt_lev_hydro), I(n)) ELSE NaN} :
           /\ nsubSteps' = n
           /\ dt_radiation' = dt
           /\ dpc' = IF n >= 1 /\ n < 10000 /\ RGt(dt, Zero) THEN "fillOld" ELSE "aborted"
    /\ isub' = 0
    /\ UNCHANGED <<dcfg, giter, oldGhost, newValid, newGhost, s1Read, s2Read, srcRead, frInc>>

\* fillBoundaryConditions(state_old_, state_old_): ghost zones of the old timestep
FillOldGhosts ==
    /\ dpc = "fillOld"
    /\ oldGhost' = isub
    /\ frInc' = [g \in Grids |-> 0]
    /\ giter' = 1
    /\ dpc' = "stage1"
    /\ UNCHANGED <<dcfg, nsubSteps, dt_radiation, isub, newValid, newGhost, s1Read, s2Read, srcRead>>

\* one grid of the stage-1 loop: computeRadiationFluxes(stateOld), PredictStep
\* into stateNew, incrementFluxRegisters
Stage1Grid ==
    /\ dpc = "stage1"
    /\ giter <= NGrids
    /\ s1Read' = [s1Read EXCEPT ![giter] = [sub |-> isub, ghost |-> oldGhost, valid |-> OldValid]]
    /\ newValid' = [newValid EXCEPT ![giter] = <<isub, "predicted">>]
    /\ frInc' = [frInc EXCEPT ![giter] = @ + 1]
    /\ giter' = giter + 1
    /\ dpc' = IF giter + 1 <= NGrids THEN "stage1" ELSE "fillNew"
    /\ UNCHANGED <<dcfg, nsubSteps, dt_radiation, isub, oldGhost, newGhost, s2Read, srcRead>>

\* a variant of the fill below that leaves the ghost zones of state_new_ as they were
FillNewGhostsSkipped ==
    /\ dpc = "fillNew"
    /\ giter' = 1
    /\ dpc' = "stage2"
    /\ UNCHANGED <<dcfg, nsubSteps, dt_radiation, isub, oldGhost, newValid, newGhost, s1Read,
                   s2Read, srcRead, frInc>>

\* fillBoundaryConditions(state_new_, state_new_): ghost zones of the intermediate stage
FillNewGhosts ==
    /\ dpc = "fillNew"
    /\ newGhost' = newValid
    /\ giter' = 1
    /\ dpc' = "stage2"
    /\ UNCHANGED <<dcfg, nsubSteps, dt_radiation, isub, oldGhost, newValid, s1Read, s2Read,
                   srcRead, frInc>>

\* one grid of the stage-2 loop: computeRadiationFluxes(stateInter),
\* AddFluxesRK2 into stateNew (the same array), incrementFluxRegisters
Stage2Grid ==
    /\ dpc = "stage2"
    /\ giter <= NGrids
    /\ s2Read' = [s2Read EXCEPT ![giter] = [sub |-> isub, valid |-> newValid[giter], ghost |-> newGhost]]
    /\ newValid' = [newValid EXCEPT ![giter] = <<isub, "advanced">>]
    /\ frInc' = [frInc EXCEPT ![giter] = @ + 1]
    /\ giter' = IF giter + 1 <= NGrids THEN giter + 1 ELSE 1
    /\ dpc' = IF giter + 1 <= NGrids THEN "stage2" ELSE "source"
    /\ UNCHANGED <<dcfg, nsubSteps, dt_radiation, isub, oldGhost, newGhost, s1Read, srcRead>>

\* one grid of the exchange loop: operatorSplitSourceTerms on stateNew, in
\* place; after the last grid the subcycle loop goes on or ends
SourceGrid ==
    /\ dpc = "source"
    /\ giter <= NGrids
    /\ srcRead' = [srcRead EXCEPT ![giter] = [sub |-> isub, new |-> newValid]]
    /\ newValid' = [newValid EXCEPT ![giter] = <<isub, "exchanged">>]
    /\ IF giter + 1 <= NGrids
       THEN /\ giter' = giter + 1
            /\ UNCHANGED <<isub, dpc>>
       ELSE /\ giter' = 0
            /\ isub' = isub + 1
            /\ dpc' = IF isub + 1 < nsubSteps THEN "fillOld" ELSE "done"
    /\ UNCHANGED <<dcfg, nsubSteps, dt_radiation, oldGhost, newGhost, s1Read, s2Read, frInc>>

NextDriver ==
    /\ \/ SubcycleBegin
       \/ FillOldGhosts
       \/ Stage1Grid
       \/ FillNewGhosts
       \/ Stage2Grid
       \/ SourceGrid
    /\ UNCHANGED <<hypVars, fluxVars, srcVars, pureVars, lagVars>>

SpecDriver == InitDriver /\ [][NextDriver]_vars

-----------------------------------------------------------------------------
(* Single calls of the closure layer (radiation_system.hpp):               *)
(* ComputeEddingtonFactor, ComputePlanckEnergyFractions, and               *)
(* ConservedToPrimitive followed by the "un-reduced" flux of ComputeFluxes. *)
(*                                                                         *)
(* The reduced flux is a quotient of doubles and the un-reduced flux a     *)
(* product of doubles, so both are rounded.  The round trip is modelled in *)
(* a binary floating-point format of MantissaBits significant bits with    *)
(* round-to-nearest-even and an unbounded exponent.                        *)

\* significant bits of the floating-point format
MantissaBits == 4

\* the number of groups of the spectra given to ComputeRadQuantityExponents
MaxSpectralGroups == 4

RECURSIVE Pow2(_)
Pow2(k) == IF k = 0 THEN 1 ELSE 2 * Pow2(k - 1)

\* the exponent e with 2^e <= n / d < 2^(e + 1), for n, d > 0
FlExp(n, d) ==
    CHOOSE e \in -12..12 :
        IF e >= 0 THEN Pow2(e) * d <= n /\ n < Pow2(e + 1) * d
        ELSE d <= n * Pow2(-e) /\ n * Pow2(-e) < 2 * d

\* n / d rounded to the nearest integer, ties to even
RoundEven(n, d) ==
    LET q == n \div d
        r == n % d
    IN  IF 2 * r > d \/ (2 * r = d /\ q % 2 = 1) THEN q + 1 ELSE q

\* the floating-point number nearest to x
Fl(x) ==
    IF ~IsFinite(x) \/ x[1] = 0 THEN x
    ELSE Only({ IF k >= 0
                THEN Q(ISgn(x[1]) * RoundEven(IAbs(x[1]) * Pow2(k), x[2]), Pow2(k))
                ELSE I(ISgn(x[1]) * RoundEven(IAbs(x[1]), x[2] * Pow2(-k)) * Pow2(-k))
                : k \in {MantissaBits - 1 - FlExp(IAbs(x[1]), x[2])} })

FlMul(a, b) == Fl(RMul(a, b))
FlDiv(a, b) == Fl(RDiv(a, b))

\* a variant of the conversion below that stores the flux itself
ConservedToPrimitiveUnscaled(cons, c_light) == cons

\* ConservedToPrimitive for one group: the energy as it is and
\* F / (c_light_ * E_r) for the three flux components
ConservedToPrimitive(cons, c_light) ==
    <<cons[1], FlDiv(cons[2], FlMul(c_light, cons[1])),
      FlDiv(cons[3], FlMul(c_light, cons[1])), FlDiv(cons[4], FlMul(c_light, cons[1]))>>

\* the "un-reduced" flux of ComputeFluxes: f * (c_light_ * erad)
UnreducedFlux(prim, c_light) ==
    <<prim[1], FlMul(prim[2], FlMul(c_light, prim[1])),
      FlMul(prim[3], FlMul(c_light, prim[1])), FlMul(prim[4], FlMul(c_light, prim[1]))>>

\* a variant of the fractions below without the branch on the number of groups
PlanckEnergyFractionsIntegrated(ng, y) ==
    Only({ [fractions |-> [g \in 1..ng |-> RDiv(RSub(y[g + 1], y[g]), tote)],
            integrals |-> ng + 1]
           : tote \in {RSum([g \in 1..ng |-> RSub(y[g + 1], y[g])], 1..ng)} })

\* ComputePlanckEnergyFractions for ng groups.  y[g] is the value
\* integrate_planck_from_0_to_x returns at boundary g (planck_integral.hpp is
\* outside these sources, so its values are arguments of the call);
\* integrals counts the evaluations of the integral.
PlanckEnergyFractions(ng, y) ==
    IF ng = 1
    THEN [fractions |-> <<One>>, integrals |-> 0]
    ELSE Only({ [fractions |-> [g \in 1..ng |-> RDiv(RSub(y[g + 1], y[g]), tote)],
                 integrals |-> ng + 1]
                : tote \in {RSum([g \in 1..ng |-> RSub(y[g + 1], y[g])], 1..ng)} })

\* log(x) / log(2) for x > 0: exact on the powers of two, rounded down
\* to an integer otherwise (log(0) = -inf)
Log2(x) ==
    IF x = NaN \/ RLt(x, Zero) THEN NaN
    ELSE IF x = Zero THEN NegInf
    ELSE IF x = PosInf THEN PosInf
    ELSE I(CHOOSE e \in -12..12 :
               /\ RLe(IF e >= 0 THEN I(Pow2(e)) ELSE Q(1, Pow2(-e)), x)
               /\ RLt(x, IF e >= -1 THEN I(Pow2(e + 1)) ELSE Q(1, Pow2(-e - 1))))

\* minmod_func; sgn(x) is (0 < x) - (x < 0), and std::min(p, q) is
\* q < p ? q : p
minmod_func(a, b) ==
    LET sgn(x) == (IF RLt(Zero, x) THEN 1 ELSE 0) - (IF RLt(x, Zero) THEN 1 ELSE 0)
        min(p, q) == IF RLt(q, p) THEN q ELSE p
    IN  RMul(RMul(Half, I(sgn(a) + sgn(b))), min(RAbs(a), RAbs(b)))

\* the slope between groups g - 1 and g (g in 2..ng) of
\* ComputeRadQuantityExponents
LogSlope(quant_mean, bin_center, g) ==
    IF quant_mean[g] = Zero /\ quant_mean[g - 1] = Zero THEN Zero
    ELSE IF RLe(RMul(quant_mean[g - 1], quant_mean[g]), Zero)
    THEN (IF RGt(quant_mean[g], quant_mean[g - 1]) THEN PosInf ELSE NegInf)
    ELSE RDiv(Log2(RAbs(RDiv(quant_mean[g], quant_mean[g - 1]))),
              Log2(RDiv(bin_center[g], bin_center[g - 1])))

\* ComputeRadQuantityExponents for ng groups; asserted is TRUE when every
\* AMREX_ASSERT of the call holds
ComputeRadQuantityExponents(ng, quant, boundaries) ==
    Only({ Only({ Only({ [exponents |-> exponents,
                          logslopes |-> logslopes,
                          asserted |->
                              /\ \A g \in 2..ng : RGt(bin_center[g], bin_center[g - 1])
                              /\ \A g \in 2..ng : logslopes[g - 1] # NaN
                              /\ \A g \in 1..ng : exponents[g] # NaN
                              /\ \A g \in 1..ng : RLt(RAbs(exponents[g]), I(100))]
                        : exponents \in {[g \in 1..ng |->
                              IF g = 1 \/ g = ng THEN Zero
                              ELSE minmod_func(logslopes[g - 1], logslopes[g])]} })
                  : logslopes \in {[g \in 1..(ng - 1) |->
                                       LogSlope(quant_mean, bin_center, g + 1)]} })
           : bin_center \in {[g \in 1..ng |-> RSqrt(RMul(boundaries[g], boundaries[g + 1]))]},
             quant_mean \in {[g \in 1..ng |->
                                RDiv(quant[g], RSub(boundaries[g + 1], boundaries[g]))]} })

\* Arguments of the calls.

\* reduced fluxes below 0, in [0, 1] and above 1, the infinities and NaN
\* (fx = Fx / (c * E_r) is NaN for E_r = 0, F = 0)
FactorInputs ==
    { [kind |-> "factor", f_in |-> f]
      : f \in { Q(k, 8) : k \in -8..20 } \cup {PosInf, NegInf, NaN} }

\* conserved states of one group with E_r > 0, every component a
\* floating-point number
PrimInputs ==
    { [kind |-> "prim", cons |-> <<I(E), I(Fx), I(-Fx), I(1)>>, c_light |-> I(c)]
      : E \in 1..(Pow2(MantissaBits) - 1), Fx \in {-7, 0, 1, 3, 5, 15}, c \in {1, 3} }

\* values of the Planck integral at the boundaries: a spectrum split
\* evenly, one split unevenly, and the NaN of temperature 0
PlanckInputs ==
    { [kind |-> "planck", ng |-> ng, y |-> y]
      : ng \in {1, NGroups},
        y \in { [k \in 1..(NGroups + 1) |-> Q(k - 1, NGroups)],
                [k \in 1..(NGroups + 1) |-> Q(k * k - 1, (NGroups + 1) * (NGroups + 1))],
                [k \in 1..(NGroups + 1) |-> NaN] } }

\* group quantities given by their means over the groups (positive, zero
\* and negative, as flux components are) on boundaries 1, 4, 16, ...
\* whose bin centres 2, 8, 32, ... have ratio 4
SpectralBoundaries == [k \in 1..(MaxSpectralGroups + 1) |-> I(Pow2(2 * (k - 1)))]

ExponentInputs ==
    { [kind |-> "exponents", ng |-> ng,
       quant |-> [g \in 1..ng |->
                     RMul(mean[g], RSub(SpectralBoundaries[g + 1], SpectralBoundaries[g]))],
       boundaries |-> [k \in 1..(ng + 1) |-> SpectralBoundaries[k]]]
      : ng \in {MaxSpectralGroups},
        mean \in [1..MaxSpectralGroups -> {I(-1), Zero, One, I(4), I(16)}] }
    \cup
    { [kind |-> "exponents", ng |-> 2,
       quant |-> <<RMul(m, I(3)), I(12)>>,
       boundaries |-> <<SpectralBoundaries[1], SpectralBoundaries[2], SpectralBoundaries[3]>>]
      : m \in {I(-1), Zero, One} }

\* matrices with nonzero diagonal, singular ones and nonsingular ones
MatrixInputs ==
    { [kind |-> "solve3x3",
       C |-> << <<I(d), I(c01), I(c02)>>, <<I(c10), I(d), I(c12)>>, <<I(c02), I(c21), I(d)>> >>,
       Y |-> <<One, I(y), I(-1)>>]
      : d \in {1, 2}, c01 \in {0, 1}, c10 \in {0, 1}, c12 \in {0, 1}, c21 \in {0, 1},
        c02 \in {0, -1}, y \in {0, 3} }

\* systems of the radiation-matter exchange shape, with and without a zero
\* on the diagonal and a zero Schur complement
LinearInputs ==
    { [kind |-> "lineareqs", a00 |-> I(a00), a0i |-> [g \in Groups |-> I(a0i[g])],
       ai0 |-> [g \in Groups |-> I(g)], aii |-> [g \in Groups |-> I(aii[g])],
       y0 |-> One, yi |-> [g \in Groups |-> I(y + g)]]
      : a00 \in {1, 2}, a0i \in [Groups -> {0, 1, -3}], aii \in [Groups -> {0, 1, 2}],
        y \in {0, 2} }

InitPure ==
    /\ pin \in FactorInputs \cup PrimInputs \cup PlanckInputs \cup ExponentInputs
                 \cup MatrixInputs \cup LinearInputs
    /\ pout = NoArray
    /\ ppc = "call"
    /\ HypIdle
    /\ FluxIdle
    /\ SrcIdle
    /\ DriverIdle
    /\ LagIdle

CallEddingtonFactor ==
    /\ ppc = "call"
    /\ pin.kind = "factor"
    /\ pout' = ComputeEddingtonFactor(pin.f_in)
    /\ ppc' = "returned"
    /\ UNCHANGED pin

CallConservedToPrimitive ==
    /\ ppc = "call"
    /\ pin.kind = "prim"
    /\ pout' = ConservedToPrimitive(pin.cons, pin.c_light)
    /\ ppc' = "primitive"
    /\ UNCHANGED pin

\* ComputeFluxes forms the flux again from the primitive state
FormUnreducedFlux ==
    /\ ppc = "primitive"
    /\ pout' = UnreducedFlux(pout, pin.c_light)
    /\ ppc' = "returned"
    /\ UNCHANGED pin

CallPlanckEnergyFractions ==
    /\ ppc = "call"
    /\ pin.kind = "planck"
    /\ pout' = PlanckEnergyFractions(pin.ng, pin.y)
    /\ ppc' = "returned"
    /\ UNCHANGED pin

CallComputeRadQuantityExponents ==
    /\ ppc = "call"
    /\ pin.kind = "exponents"
    /\ pout' = ComputeRadQuantityExponents(pin.ng, pin.quant, pin.boundaries)
    /\ ppc' = "returned"
    /\ UNCHANGED pin

CallSolve3x3matrix ==
    /\ ppc = "call"
    /\ pin.kind = "solve3x3"
    /\ pout' = Solve3x3matrix(pin.C, pin.Y)
    /\ ppc' = "returned"
    /\ UNCHANGED pin

CallSolveLinearEqs ==
    /\ ppc = "call"
    /\ pin.kind = "lineareqs"
    /\ pout' = SolveLinearEqs(pin.a00, pin.a0i, pin.ai0, pin.aii, pin.y0, pin.yi)
    /\ ppc' = "returned"
    /\ UNCHANGED pin

NextPure ==
    /\ \/ CallEddingtonFactor
       \/ CallConservedToPrimitive
       \/ FormUnreducedFlux
       \/ CallPlanckEnergyFractions
       \/ CallComputeRadQuantityExponents
       \/ CallSolve3x3matrix
       \/ CallSolveLinearEqs
    /\ UNCHANGED <<hypVars, fluxVars, srcVars, driverVars, lagVars>>

SpecPure == InitPure /\ [][NextPure]_vars

-----------------------------------------------------------------------------
(* The lagged work term of AddSourceTerms (radiation_system.hpp), for both *)
(* opacity models and any number of groups: the work term at the old       *)
(* state, its update at the end of a pass and the convergence test of the  *)
(* outer loop.  The Newton-Raphson loop and the flux update of a pass are  *)
(* represented by their results: the gas energy and the new flux, which is *)
(* the old flux damped by one of two factors.                              *)

\* log(x) with log(2) taken as 11/16
LogNat(x) == RMul(Log2(x), Q(11, 16))

\* std::pow(x, a) for x > 0: exact for integer a, through the square root
\* for a multiple of 1/2 (other exponents are rounded down to one)
Pow(x, a) ==
    IF x = NaN \/ a = NaN THEN NaN
    ELSE IF a = PosInf THEN (IF RGt(x, One) THEN PosInf ELSE IF x = One THEN One ELSE Zero)
    ELSE IF a = NegInf THEN (IF RGt(x, One) THEN Zero ELSE IF x = One THEN One ELSE PosInf)
    ELSE Only({ IF k % 2 = 0
                THEN (IF k >= 0 THEN RPowNat(x, k \div 2) ELSE RInv(RPowNat(x, (-k) \div 2)))
                ELSE (IF k >= 0 THEN RPowNat(RSqrt(x), k) ELSE RInv(RPowNat(RSqrt(x), -k)))
                : k \in {(2 * a[1]) \div a[2]} })

\* part1 and part2 of ComputeGroupMeanOpacity
OpacityIntegral(ratio, alpha) ==
    IF LtPow10(RAbs(alpha), 8) /\ alpha # NaN
    THEN LogNat(ratio)
    ELSE RDiv(RSub(Pow(ratio, alpha), One), alpha)

\* ComputeGroupMeanOpacity for ng groups; kappa_expo_and_lower_value is
\* [alpha_kappa, kappa_lower]
ComputeGroupMeanOpacity(ng, kappa_expo_and_lower_value, radBoundaryRatios, alpha_quant) ==
    [g \in 1..ng |->
        RMul(RDiv(kappa_expo_and_lower_value.kappa_lower[g],
                  OpacityIntegral(radBoundaryRatios[g], RAdd(alpha_quant[g], One))),
             OpacityIntegral(radBoundaryRatios[g],
                             RAdd(RAdd(alpha_quant[g],
                                       kappa_expo_and_lower_value.alpha_kappa[g]), One)))]

\* radBoundaries_g_copy and radBoundaryRatios_copy
LagBoundaries(cfg) == [k \in 1..(cfg.ng + 1) |-> SpectralBoundaries[k]]

LagBoundaryRatios(cfg) ==
    [g \in 1..cfg.ng |-> RDiv(SpectralBoundaries[g + 1], SpectralBoundaries[g])]

\* the piecewise power-law work term: what the three passes over n add to
\* the accumulator acc, scaled by chat * dt / (c * c); F[n][g] is the flux
PowerLawWork(cfg, acc, mom, F) ==
    Only({ [g \in 1..cfg.ng |->
               RMul(RAdd(acc[g],
                         RSum([n \in Dims |->
                                  RMul(RMul(RMul(RAdd(cfg.kappa_expo_and_lower_value.alpha_kappa[g], One),
                                                 mom[n]),
                                            kappaFVec[n][g]),
                                       F[n][g])], Dims)),
                    RDiv(RMul(cfg.chat, SourceDt(cfg)), RMul(cfg.c, cfg.c)))]
           : kappaFVec \in {[n \in Dims |->
                 ComputeGroupMeanOpacity(
                     cfg.ng, cfg.kappa_expo_and_lower_value, LagBoundaryRatios(cfg),
                     ComputeRadQuantityExponents(cfg.ng, F[n], LagBoundaries(cfg)).exponents)]} })

\* the work term of the user model for group g (lorentz_factor_v = 1)
UserWork(cfg, mom, F, g) ==
    WorkTerm(cfg, mom, <<F[1][g], F[2][g], F[3][g]>>, cfg.kappaE[g], cfg.kappaF[g], One)

\* the work term at the old state (ite = 0)
WorkAtOldState(cfg) ==
    IF cfg.opacity_model = "user"
    THEN [g \in 1..cfg.ng |-> UserWork(cfg, cfg.gasMtm0, cfg.frad, g)]
    ELSE PowerLawWork(cfg, [g \in 1..cfg.ng |-> Zero], cfg.gasMtm0, cfg.frad)

\* iteration g of the loop that updates the work term.  In the piecewise
\* power-law model the iteration zeroes work[0..2] and redoes the whole
\* array; with fewer than three groups the stores to work[nGroups_..2] are
\* out of bounds and land in work_prev, which is declared next to work, or
\* where they are not seen (cfg.oob)
WorkUpdateOfGroup(cfg, g, st, GasMom1, F) ==
    IF cfg.opacity_model = "user"
    THEN [work |-> [st.work EXCEPT ![g] = UserWork(cfg, GasMom1, F, g)],
          work_prev |-> [st.work_prev EXCEPT ![g] = st.work[g]]]
    ELSE [work |-> PowerLawWork(cfg, [k \in 1..cfg.ng |-> IF k <= 3 THEN Zero ELSE st.work[k]],
                                cfg.gasMtm0, F),
          work_prev |-> [j \in 1..cfg.ng |->
                            IF cfg.oob = "work_prev" /\ j + cfg.ng <= 3 THEN Zero
                            ELSE IF j = g THEN st.work[g]
                            ELSE st.work_prev[j]]]

\* the iterations g .. nGroups_ - 1 of that loop
RECURSIVE WorkUpdateLoop(_, _, _, _, _)
WorkUpdateLoop(cfg, g, st, GasMom1, F) ==
    IF g > cfg.ng THEN st
    ELSE WorkUpdateLoop(cfg, g + 1, WorkUpdateOfGroup(cfg, g, st, GasMom1, F), GasMom1, F)

\* the test that ends the outer loop
LagConverged(cfg, w, wprev, R) ==
    LET dw == RSum([g \in 1..cfg.ng |-> RAbs(RSub(w[g], wprev[g]))], 1..cfg.ng)
    IN  \/ RSum([g \in 1..cfg.ng |-> RAbs(w[g])], 1..cfg.ng) = Zero
        \/ LtPow10(RDiv(RMul(RDiv(cfg.c, cfg.chat), dw), cfg.Etot0), lag_tol_exp)
        \/ LePow10Times(dw, lag_tol_exp, RSum(R, 1..cfg.ng))

\* Sample inputs: a flux along x whose group means are 2, 4, 8, ... (the
\* exponents are 1/2 in the interior groups), a flat opacity, gas moving
\* along x
LagFlux(ng) ==
    [n \in Dims |->
        [g \in 1..ng |->
            IF n = 1
            THEN RMul(I(Pow2(g)), RSub(SpectralBoundaries[g + 1], SpectralBoundaries[g]))
            ELSE Zero]]

LagConfigs ==
    { [opacity_model |-> m, ng |-> ng, oob |-> o,
       c |-> One, chat |-> One, dt_radiation |-> One, stage |-> 1,
       gasMtm0 |-> <<I(p), Zero, Zero>>, frad |-> LagFlux(ng),
       kappaE |-> [g \in 1..ng |-> One], kappaF |-> [g \in 1..ng |-> One],
       kappa_expo_and_lower_value |->
           [alpha_kappa |-> [g \in 1..ng |-> Zero], kappa_lower |-> [g \in 1..ng |-> One]],
       Egas0 |-> I(3), Etot0 |-> I(10), Rbase |-> [g \in 1..ng |-> Zero]]
      : m \in {"user", "piecewisePowerLaw"}, ng \in 1..MaxSpectralGroups,
        o \in {"unseen", "work_prev"}, p \in {1, 2} }

InitLag ==
    /\ lagcfg \in LagConfigs
    /\ (lagcfg.opacity_model = "user" \/ lagcfg.ng >= 3) => lagcfg.oob = "unseen"
    /\ lagpc = "pass"
    /\ lag = [ite |-> 0, Egas_guess |-> NaN,
              work |-> [g \in 1..lagcfg.ng |-> Zero],
              work_prev |-> [g \in 1..lagcfg.ng |-> Zero],
              Rvec |-> [g \in 1..lagcfg.ng |-> Zero],
              Frad_t1 |-> [n \in Dims |-> [g \in 1..lagcfg.ng |-> Zero]],
              GasMom1 |-> <<NaN, NaN, NaN>>]
    /\ HypIdle
    /\ FluxIdle
    /\ SrcIdle
    /\ DriverIdle
    /\ PureIdle

\* the start of an outer pass: Egas_guess = Egas0, the work term at the old
\* state when ite = 0, and Rvec = (4 pi B / c - Erad0 / kappaPoverE) * tau0 + work
LagPassBegin ==
    /\ lagpc = "pass"
    /\ \E w \in {IF lag.ite = 0 THEN WorkAtOldState(lagcfg) ELSE lag.work} :
           lag' = [lag EXCEPT !.Egas_guess = lagcfg.Egas0,
                              !.work = w,
                              !.Rvec = [g \in 1..lagcfg.ng |-> RAdd(lagcfg.Rbase[g], w[g])]]
    /\ lagpc' = "solve"
    /\ UNCHANGED lagcfg

\* the Newton-Raphson loop and the flux update of the pass, by their
\* results: the new flux, the momentum it gives to the gas, and the gas energy
LagSolve ==
    /\ lagpc = "solve"
    /\ \E damp \in {Half, Q(1, 4)}, dEgas \in {0, 1} :
       \E F1 \in {[n \in Dims |-> [g \in 1..lagcfg.ng |-> RMul(damp, lagcfg.frad[n][g])]]} :
           lag' = [lag EXCEPT
                      !.Frad_t1 = F1,
                      !.GasMom1 =
                          [n \in Dims |->
                              RAdd(lagcfg.gasMtm0[n],
                                   RSum([g \in 1..lagcfg.ng |->
                                            RNeg(RDiv(RSub(F1[n][g], lagcfg.frad[n][g]),
                                                      RMul(lagcfg.c, lagcfg.chat)))],
                                        1..lagcfg.ng))],
                      !.Egas_guess = RSub(lagcfg.Egas0, I(dEgas))]
    /\ lagpc' = "update"
    /\ UNCHANGED lagcfg

\* the loop over the groups that copies work to work_prev and computes the
\* new work term
LagWorkUpdate ==
    /\ lagpc = "update"
    /\ \E st \in {WorkUpdateLoop(lagcfg, 1, [work |-> lag.work, work_prev |-> lag.work_prev],
                                lag.GasMom1, lag.Frad_t1)} :
           lag' = [lag EXCEPT !.work = st.work, !.work_prev = st.work_prev]
    /\ lagpc' = "check"
    /\ UNCHANGED lagcfg

\* the convergence test, the end of the pass and the assertion ite < max_ite
LagConvergenceCheck ==
    /\ lagpc = "check"
    /\ IF LagConverged(lagcfg, lag.work, lag.work_prev, lag.Rvec)
       THEN lag' = lag /\ lagpc' = "done"
       ELSE /\ lag' = [lag EXCEPT !.ite = @ + 1]
            /\ lagpc' = IF lag.ite + 1 < max_ite THEN "pass" ELSE "aborted"
    /\ UNCHANGED lagcfg

NextLag ==
    /\ \/ LagPassBegin
       \/ LagSolve
       \/ LagWorkUpdate
       \/ LagConvergenceCheck
    /\ UNCHANGED <<hypVars, fluxVars, srcVars, driverVars, pureVars>>

SpecLag == InitLag /\ [][NextLag]_vars

-----------------------------------------------------------------------------
(* Claims                                                                  *)

\* cells whose state_new_ slot holds a state committed by a hyperbolic stage
Committed == IF hpc = "stage1" THEN hdone ELSE IF hpc \in {"stage2", "done"} THEN Cells ELSE {}

\* E_r,g >= Erad_floor_ and |F_g| <= c * E_r,g
GroupAdmissible(cons, g, c_light, floor) ==
    /\ RGe(cons[radEnergy_index(g)], floor)
    /\ RLe(Norm3(cons[x1RadFlux_index(g)], cons[x2RadFlux_index(g)], cons[x3RadFlux_index(g)]),
           RMul(c_light, cons[radEnergy_index(g)]))

\* C1: after PredictStep and after AddFluxesRK2 every committed cell has, in
\* every group, E_r >= Erad_floor_ and |F| <= c * E_r.
C1_CommittedStateAdmissible ==
    \A i \in Committed : \A g \in Groups :
        GroupAdmissible(state_new[i], g, hcfg.c_light, Erad_floor_(hcfg.Erad_floor))

\* C3: the state amendRadState produces passes isStateValid, so the assertion
\* after the amendment never fails in either stage.
C3_AssertAfterAmendHolds == hassert = {}

\* C9: on the periodic domain the PredictStep updates sum to zero over the
\* cells in every component, and when stage 1 amended no cell the domain
\* totals of state_new_ equal those of state_old_.
C9_PredictTelescopes ==
    hpc \in {"stage1", "stage2", "done"} =>
        /\ \A n \in HypVars :
              RSum([i \in Cells |-> FluxDiv(fluxOld, i, n, hcfg.dt, hcfg.dx)], Cells) = Zero
        /\ (hpc = "stage1" /\ hdone = Cells /\ hamended = {}) =>
              \A n \in HypVars :
                  RSum([i \in Cells |-> state_new[i][n]], Cells)
                      = RSum([i \in Cells |-> state_old[i][n]], Cells)

\* C9 witness: stage 1 is complete, amended nothing and changed some cell
C9_Witness ==
    /\ hpc = "stage1"
    /\ hdone = Cells
    /\ hamended = {}
    /\ \E i \in Cells : state_new[i] # state_old[i]

\* the reconstructed states of group g at face i: <<erad, f * c * erad>> on each side
ReconstructedU(state, i, g) ==
    LET erad == state[i][primRadEnergy_index(g)]
        cE == RMul(fxcfg.c_light, erad)
    IN  <<erad, RMul(state[i][x1ReducedFlux_index(g)], cE),
          RMul(state[i][x2ReducedFlux_index(g)], cE),
          RMul(state[i][x3ReducedFlux_index(g)], cE)>>

\* the conserved values of group g in cell i
DonorU(i, g) ==
    <<consVar[i][radEnergy_index(g)], consVar[i][x1RadFlux_index(g)],
      consVar[i][x2RadFlux_index(g)], consVar[i][x3RadFlux_index(g)]>>

\* erad_L <= 0, erad_R <= 0, f_L >= 1 or f_R >= 1 for the reconstructed states of group g
Inadmissible(i, g) ==
    LET L == x1LeftState[i]
        R == x1RightState[i]
    IN  \/ RLe(L[primRadEnergy_index(g)], Zero)
        \/ RLe(R[primRadEnergy_index(g)], Zero)
        \/ RGe(Norm3(L[x1ReducedFlux_index(g)], L[x2ReducedFlux_index(g)], L[x3ReducedFlux_index(g)]), One)
        \/ RGe(Norm3(R[x1ReducedFlux_index(g)], R[x2ReducedFlux_index(g)], R[x3ReducedFlux_index(g)]), One)

\* C4: at every face and for every group g, the HLL formula is given the
\* donor-cell conserved values of cells i-1 and i when the reconstructed
\* states of group g have erad_L <= 0, erad_R <= 0, f_L >= 1 or f_R >= 1, and
\* the reconstructed states of group g otherwise, whatever the other groups
\* hold; the flux written for group g is the HLL flux of those inputs.
C4_FallbackPerGroup ==
    \A i \in fxdone : \A g \in Groups :
        /\ Inadmissible(i, g) =>
              /\ hllInputs[i][g].U_L = DonorU(i - 1, g)
              /\ hllInputs[i][g].U_R = DonorU(i, g)
        /\ ~Inadmissible(i, g) =>
              /\ hllInputs[i][g].U_L = ReconstructedU(x1LeftState, i, g)
              /\ hllInputs[i][g].U_R = ReconstructedU(x1RightState, i, g)
        /\ [k \in 1..numRadVars |-> x1Flux[i][numRadVars * (g - 1) + k]]
              = HLLFlux(hllInputs[i][g], fxcfg.c_light, fxcfg.c_hat,
                        WavespeedEpsilon(fxcfg.wavespeed, i + fxcfg.jk,
                            IF fxcfg.wavespeed
                            THEN ComputeCellOpticalDepth(FluxGasDensity(fxcfg.jk), FluxKappaF,
                                                         fxcfg.dx, i, g)
                            ELSE Zero))

\* C4 witness: a processed face where one group fell back to the donor cells
\* (with f = 1 exactly on one side) and another group kept its reconstruction
C4_Witness ==
    \E i \in fxdone : \E g1, g2 \in Groups :
        /\ Inadmissible(i, g1)
        /\ Norm3(x1LeftState[i][x1ReducedFlux_index(g1)], x1LeftState[i][x2ReducedFlux_index(g1)],
                 x1LeftState[i][x3ReducedFlux_index(g1)]) = One
        /\ hllInputs[i][g1].U_L # ReconstructedU(x1LeftState, i, g1)
        /\ ~Inadmissible(i, g2)
        /\ hllInputs[i][g2].U_L # DonorU(i - 1, g2)
        /\ hllInputs[i][g2].U_L = ReconstructedU(x1LeftState, i, g2)

\* E_r,g >= Erad_floor_ and |F_g| <= c * E_r,g for group g of a cell of the exchange step
CellGroupAdmissible(cell, g, cfg) ==
    /\ RGe(cell.rad[g][1], Erad_floor_(cfg.Erad_floor))
    /\ RLe(Norm3(cell.rad[g][2], cell.rad[g][3], cell.rad[g][4]), RMul(cfg.c, cell.rad[g][1]))

\* C2: when AddSourceTerms has stored its result for a cell whose input
\* satisfied E_r >= Erad_floor_ and |F| <= c * E_r in every group, the stored
\* state satisfies both in every group.
C2_StoredStateAdmissible ==
    (spc = "stored" /\ \A g \in Groups : CellGroupAdmissible(sIn, g, scfg)) =>
        \A g \in Groups : CellGroupAdmissible(sCons, g, scfg)

\* the stored gas internal energy plus (c / chat) times the stored radiation energies
StoredTotalEnergy ==
    RAdd(sCons.Eint, RMul(RDiv(scfg.c, scfg.chat), RSum([g \in Groups |-> sCons.rad[g][1]], Groups)))

\* C5: with zero gas momentum and zero initial radiation flux, the stored gas
\* internal energy plus (c / chat) times the sum of the stored radiation
\* energies equals Etot0 to within the residual tolerance of the two Newton
\* residuals, at either stage and for every combination of opacities.
C5_TotalEnergyWithinTolerance ==
    (/\ spc = "stored"
     /\ sIn.mom = <<Zero, Zero, Zero>>
     /\ \A g \in Groups : Tail(sIn.rad[g]) = <<Zero, Zero, Zero>>) =>
        LtPow10(RDiv(RAbs(RSub(StoredTotalEnergy, Etot0Of(scfg, sIn, sSrc))),
                     RMul(Two, Etot0Of(scfg, sIn, sSrc))),
                resid_tol_exp)

\* C6: AddSourceTerms runs at most max_ite outer passes and at most maxIter
\* Newton iterations per pass; once a cap is reached nothing but the failing
\* assertion follows, and a result is stored only when the last Newton loop
\* ended below maxIter and the outer loop ended below max_ite.
C6_IterationCaps ==
    /\ ite <= max_ite
    /\ nIter <= maxIter
    /\ (nIter = maxIter \/ ite = max_ite) => spc \in {"newtonEnd", "outerEnd", "aborted"}
    /\ spc = "stored" => (nIter < maxIter /\ ite < max_ite /\ sfail = "none")

\* C6 witness: the run was aborted after the fifth outer pass, each pass with
\* a Newton loop that met the residual tolerance
C6_Witness ==
    /\ spc = "aborted"
    /\ ite = max_ite
    /\ nIter < maxIter
    /\ sfail = "AddSourceTerms iteration failed to converge!"

\* C7: until AddSourceTerms has passed the assertion after the outer loop no
\* component of the cell is written: in every state before the store, and in
\* every aborted run, the cell holds its input.
C7_AbortWritesNothing == spc # "stored" => sCons = sIn

\* C7 witness: an aborted run that had already computed a new flux and a
\* momentum change for the cell
C7_Witness ==
    /\ spc = "aborted"
    /\ \E g \in Groups : Frad_t1[g] # Tail(sIn.rad[g])
    /\ dMomentum # <<Zero, Zero, Zero>>
    /\ sCons = sIn

\* C10: in each component the stored gas momentum minus the input gas momentum
\* is -(1 / (c * chat)) times the sum over the groups of the stored minus the
\* input radiation flux, at either stage and after any number of outer passes.
C10_MomentumExchange ==
    spc = "stored" =>
        \A n \in Dims :
            RSub(sCons.mom[n], sIn.mom[n])
                = RNeg(RDiv(RSum([g \in Groups |-> RSub(sCons.rad[g][n + 1], sIn.rad[g][n + 1])],
                                 Groups),
                            RMul(scfg.c, scfg.chat)))

\* C8: in every radiation substep stage 1 on a grid reads state_old_ after its
\* ghost fill; stage 2 on a grid reads the intermediate state of that grid and
\* ghost zones that were filled after PredictStep had run on every grid; and
\* the exchange on a grid finds the stage-2 result on that grid and on every
\* grid either the stage-2 result or, where the exchange loop has passed, the
\* exchanged state of the same substep.
C8_SubstepOrder ==
    \A g \in DOMAIN newValid :
        /\ s1Read[g].sub >= 0 => s1Read[g].ghost = s1Read[g].sub
        /\ s2Read[g].sub >= 0 =>
              /\ s2Read[g].valid = <<s2Read[g].sub, "predicted">>
              /\ \A h \in Grids : s2Read[g].ghost[h] = <<s2Read[g].sub, "predicted">>
        /\ srcRead[g].sub >= 0 =>
              /\ srcRead[g].new[g] = <<srcRead[g].sub, "advanced">>
              /\ \A h \in Grids :
                    srcRead[g].new[h] \in {<<srcRead[g].sub, "advanced">>, <<srcRead[g].sub, "exchanged">>}

\* C8 witness: the second substep has applied the exchange on every grid
C8_Witness ==
    /\ dpc \in {"fillOld", "done"}
    /\ isub = 2
    /\ \A g \in DOMAIN newValid :
          /\ newValid[g] = <<1, "exchanged">>
          /\ s2Read[g].sub = 1
          /\ srcRead[g].sub = 1

\* what the solve of a cell shows of the timestep dt it used: the optical
\* depth tau0 of the old state (floored at 1), the source in the converged
\* radiation residual of every absorbing group, and the flux coefficient of
\* the beta_order 0 relaxation
SolveUsesDt(dt) ==
    LET T0 == ComputeTgasFromEint(sIn.rho, sIn.Eint, scfg.c_v)
        lf == lorentz_factor(scfg, betaSqrOf(scfg, sIn))
        T1 == ComputeTgasFromEint(sIn.rho, Egas_guess, scfg.c_v)
        Etot0 == Etot0Of(scfg, sIn, sSrc)
    IN  /\ spc \in {"newton", "newtonEnd", "flux", "outerEnd", "stored"} =>
              \A g \in Groups :
                  tau0[g] = RMax(One, RMul(RMul(RMul(RMul(dt, sIn.rho),
                                                     ComputePlanckOpacity(scfg, T0)[g]), scfg.chat), lf))
        /\ (spc = "flux" /\ ite = 0 /\ scfg.opac.cold = scfg.opac.hot) =>
              \A g \in Groups :
                  RGt(ComputeEnergyMeanOpacity(scfg, T1)[g], Zero) =>
                      LtPow10(RDiv(RMul(RDiv(scfg.c, scfg.chat),
                                        RAbs(RSub(RSub(RSub(EradVec_guess[g], sIn.rad[g][1]), Rvec[g]),
                                                  RMul(dt, RMul(scfg.chat, sSrc[g]))))),
                                   Etot0),
                              resid_tol_exp)
        /\ (spc \in {"outerEnd", "stored"} /\ scfg.beta_order = 0) =>
              \A g \in Groups : \A n \in Dims :
                  RMul(Frad_t1[g][n],
                       RAdd(One, RMul(RMul(RMul(sIn.rho, ComputeFluxMeanOpacity(scfg, T1)[g]),
                                           scfg.chat), dt)))
                      = sIn.rad[g][n + 1]

\* C11 as stated: unless AddSourceTerms is called for stage 1, the solve
\* uses the full dt it is given.
C11_FullDtUnlessStage1 == scfg.stage # 1 => SolveUsesDt(scfg.dt_radiation)

\* C11: AddSourceTerms solves with the full dt it is given when called for
\* stage 1, and with (1 - IMEX_a32) times the given dt when called for
\* stage 2: in the optical depths, the source and the flux coefficients.
C11_DtScaledAtStage2 ==
    /\ scfg.stage = 1 => SolveUsesDt(scfg.dt_radiation)
    /\ scfg.stage = 2 => SolveUsesDt(RMul(RSub(One, IMEX_a32), scfg.dt_radiation))

\* C11 witness: a stage-2 call that stored a relaxed flux, with a source and
\* an optical depth above the floor of 1
C11_Witness ==
    /\ spc = "stored"
    /\ scfg.stage = 2
    /\ scfg.beta_order = 0
    /\ \E g \in Groups : RGt(tau0[g], One) /\ sSrc[g] # Zero /\ sIn.rad[g][2] # Zero
                         /\ Frad_t1[g][1] # sIn.rad[g][2]

\* the state PredictStep commits for cell i, from the arrays it was given
Stage1Result(i) ==
    enforceValidity(PredictCons(state_old, fluxOld, i, hcfg.dt, hcfg.dx),
                    hcfg.c_light, Erad_floor_(hcfg.Erad_floor))

\* the state AddFluxesRK2 commits for cell i when it is given U1
Stage2Result(U1, i) ==
    enforceValidity(RK2Cons(state_old, U1, fluxOld, fluxNew, i, hcfg.dt, hcfg.dx),
                    hcfg.c_light, Erad_floor_(hcfg.Erad_floor))

TransparentGroup(g) ==
    LET key == IF g % 2 = 1 THEN "odd" ELSE "even"
    IN  scfg.opac.cold[key][2] = Zero /\ scfg.opac.hot[key][2] = Zero

\* C14: a group whose optical depth tau is 0 keeps its radiation energy: the
\* guess of the group stays the energy that was read, and the stored energy
\* of the group equals it, whatever its source term, its Planck opacity and
\* the other groups.
C14_TransparentGroupKeepsEnergy ==
    \A g \in Groups :
        TransparentGroup(g) =>
            /\ EradVec_guess[g] = sIn.rad[g][1]
            /\ sCons.rad[g][1] = sIn.rad[g][1]

\* C14 witness: a stored result where a group with tau = 0 has a source term
\* and a Planck opacity, and another group exchanged energy
C14_Witness ==
    /\ spc = "stored"
    /\ \E g, h \in Groups :
          /\ TransparentGroup(g)
          /\ sSrc[g] # Zero
          /\ ComputePlanckOpacity(scfg, One)[g] # Zero
          /\ sCons.rad[g][1] = sIn.rad[g][1]
          /\ ~TransparentGroup(h)
          /\ sCons.rad[h][1] # sIn.rad[h][1]

\* C15: with the wavespeed correction off, the diffusive flux of every face
\* and group equals the high-resolution flux in all four components; with
\* the correction on, the two agree in the three flux components at every
\* face and in the energy component at every face of odd index sum i + j + k.
C15_DiffusiveFluxMatches ==
    \A i \in fxdone :
        \A g \in Groups :
            /\ \A n \in {x1RadFlux_index(g), x2RadFlux_index(g), x3RadFlux_index(g)} :
                   x1FluxDiffusive[i][n] = x1Flux[i][n]
            /\ (~fxcfg.wavespeed \/ (i + fxcfg.jk) % 2 = 1) =>
                   x1FluxDiffusive[i][radEnergy_index(g)] = x1Flux[i][radEnergy_index(g)]

\* C15 witness: a run with the correction on in which the energy components
\* differ at a face of even index sum while a face of odd index sum next to a
\* jump in the energy has equal fluxes
C15_Witness ==
    /\ fxcfg.wavespeed
    /\ \E i \in fxdone, g \in Groups :
          /\ (i + fxcfg.jk) % 2 = 0
          /\ x1FluxDiffusive[i][radEnergy_index(g)] # x1Flux[i][radEnergy_index(g)]
    /\ \E i \in fxdone, g \in Groups :
          /\ (i + fxcfg.jk) % 2 = 1
          /\ hllInputs[i][g].U_L[1] # hllInputs[i][g].U_R[1]
          /\ x1FluxDiffusive[i] = x1Flux[i]

\* C15 witness with the correction off: a face next to a jump in the energy
\* whose two fluxes are equal and finite
C15_WitnessDefault ==
    /\ ~fxcfg.wavespeed
    /\ \E i \in fxdone, g \in Groups :
          /\ hllInputs[i][g].U_L[1] # hllInputs[i][g].U_R[1]
          /\ IsFinite(x1Flux[i][radEnergy_index(g)])
          /\ x1FluxDiffusive[i] = x1Flux[i]

\* C16: ComputeEddingtonFactor returns a value in [1/3, 1] for every input,
\* 1/3 at f = 0 and 1 at f = 1, so that the assertion
\* (chi >= 1/3) && (chi <= 1) of ComputeEddingtonTensor holds.
C16_EddingtonFactorInRange ==
    (ppc = "returned" /\ pin.kind = "factor") =>
        /\ RGe(pout, Q(1, 3)) /\ RLe(pout, One)
        /\ pin.f_in = Zero => pout = Q(1, 3)
        /\ pin.f_in = One => pout = One

\* the same range for every input that is not NaN
C16_InRangeUnlessNaN ==
    (ppc = "returned" /\ pin.kind = "factor" /\ ~IsNaN(pin.f_in)) =>
        /\ RGe(pout, Q(1, 3)) /\ RLe(pout, One)
        /\ RLe(pin.f_in, Zero) => pout = Q(1, 3)
        /\ RGe(pin.f_in, One) => pout = One

\* C17: with one group ComputePlanckEnergyFractions returns [1.0] whatever
\* the Planck integral would return for the temperature and the boundaries,
\* and evaluates the integral zero times.
C17_SingleGroupFraction ==
    (ppc = "returned" /\ pin.kind = "planck" /\ pin.ng = 1) =>
        pout.fractions = <<One>> /\ pout.integrals = 0

\* C17 witness: a call with one group at a temperature where the integral is
\* NaN, returning [1.0]
C17_Witness ==
    /\ ppc = "returned" /\ pin.kind = "planck" /\ pin.ng = 1
    /\ IsNaN(pin.y[1])
    /\ pout.fractions = <<One>>

SignalSpeeds(i, g) ==
    <<ComputeRadPressure(hllInputs[i][g].U_L[1], hllInputs[i][g].U_L[2], hllInputs[i][g].U_L[3],
                         hllInputs[i][g].U_L[4], hllInputs[i][g].f_L[1], hllInputs[i][g].f_L[2],
                         hllInputs[i][g].f_L[3]).S,
      ComputeRadPressure(hllInputs[i][g].U_R[1], hllInputs[i][g].U_R[2], hllInputs[i][g].U_R[3],
                         hllInputs[i][g].U_R[4], hllInputs[i][g].f_R[1], hllInputs[i][g].f_R[2],
                         hllInputs[i][g].f_R[3]).S>>

\* C19: at every face and group the HLL formula is given, both signal speeds
\* returned by ComputeRadPressure lie in [0.1, 1], so that S_L = -S * c_hat
\* and S_R = S * c_hat satisfy |S_L| <= c_hat, |S_R| <= c_hat and
\* S_R - S_L >= 0.2 * c_hat.
C19_SignalSpeedBounds ==
    \A i \in fxdone : \A g \in Groups :
        \A S \in {SignalSpeeds(i, g)} :
            /\ RGe(S[1], Q(1, 10)) /\ RLe(S[1], One)
            /\ RGe(S[2], Q(1, 10)) /\ RLe(S[2], One)
            /\ RLe(RAbs(RMul(RMul(S[1], I(-1)), fxcfg.c_hat)), fxcfg.c_hat)
            /\ RLe(RAbs(RMul(S[2], fxcfg.c_hat)), fxcfg.c_hat)
            /\ RGe(RSub(RMul(S[2], fxcfg.c_hat), RMul(RMul(S[1], I(-1)), fxcfg.c_hat)),
                   RMul(Q(2, 10), fxcfg.c_hat))

\* C19 witness: a processed face where free-streaming radiation moves along
\* the face on one side (Tnormal = 0), so that its speed is the floor 0.1,
\* with a speed above the floor on the other side and a finite flux
C19_Witness ==
    \E i \in fxdone, g \in Groups :
        /\ hllInputs[i][g].f_L[1] = Zero /\ RAbs(hllInputs[i][g].f_L[2]) = One
        /\ SignalSpeeds(i, g)[1] = Q(1, 10)
        /\ RGt(SignalSpeeds(i, g)[2], Q(1, 10))
        /\ IsFinite(x1Flux[i][radEnergy_index(g)])

\* values of the coefficient a32: the one of the source, the ends of the
\* range 0 < a32 <= 0.5 and values outside it
A32Values == {IMEX_a32, Zero, Q(1, 4), Q(1, 3), One, I(-1)}

\* C20: for every a32 the combination AddFluxesRK2 forms from U0, the U1 that
\* stage 1 left and the two flux divergences equals
\* U0 + (div(flux0) + div(flux1)) / 2 + a32 * (U1 - (U0 + div(flux0))):
\* the classical SSP-RK2 value where stage 1 did not amend the cell, and
\* a32 times the amendment away from it where it did (the divergences
\* include the factor dt / dx).
C20_ClassicalRK2PlusAmendment ==
    hpc = "stage2" =>
        \A i \in Cells \ hdone : \A n \in HypVars : \A a32 \in A32Values :
            \A d \in {<<FluxDiv(fluxOld, i, n, hcfg.dt, hcfg.dx),
                        FluxDiv(fluxNew, i, n, hcfg.dt, hcfg.dx)>>} :
                /\ RK2Combine(a32, state_old[i][n], state_new[i][n], d[1], d[2])
                       = RAdd(RAdd(state_old[i][n], RMul(Half, RAdd(d[1], d[2]))),
                              RMul(a32, RSub(state_new[i][n], RAdd(state_old[i][n], d[1]))))
                /\ <<1, i>> \notin hamended =>
                       /\ state_new[i][n] = RAdd(state_old[i][n], d[1])
                       /\ RK2Combine(a32, state_old[i][n], state_new[i][n], d[1], d[2])
                              = RAdd(state_old[i][n], RMul(Half, RAdd(d[1], d[2])))
                /\ a32 = IMEX_a32 =>
                       RK2Cons(state_old, state_new, fluxOld, fluxNew, i, hcfg.dt, hcfg.dx)[n]
                           = RK2Combine(a32, state_old[i][n], state_new[i][n], d[1], d[2])

\* C20 witness: a stage-2 state with a cell stage 1 amended, whose value is
\* off the classical one, next to a cell it did not amend, with flux
\* divergences that are not 0
C20_Witness ==
    /\ hpc = "stage2"
    /\ \E i, j \in Cells \ hdone : \E n \in HypVars :
          /\ <<1, i>> \in hamended
          /\ RK2Cons(state_old, state_new, fluxOld, fluxNew, i, hcfg.dt, hcfg.dx)[n]
                 # RAdd(state_old[i][n],
                        RMul(Half, RAdd(FluxDiv(fluxOld, i, n, hcfg.dt, hcfg.dx),
                                        FluxDiv(fluxNew, i, n, hcfg.dt, hcfg.dx))))
          /\ <<1, j>> \notin hamended
          /\ FluxDiv(fluxOld, j, n, hcfg.dt, hcfg.dx) # Zero
          /\ FluxDiv(fluxNew, j, n, hcfg.dt, hcfg.dx) # Zero

(***************************************************************************)
(* C21, C22.  The lagged work term of the outer loop.                      *)
(***************************************************************************)

\* the work term that the Newton solve of this pass uses: the part of Rvec
\* that is not the emission-absorption residual
WorkInRvec == [g \in 1..lagcfg.ng |-> RSub(lag.Rvec[g], lagcfg.Rbase[g])]

\* the work term computed afresh from momentum mom and flux F
FreshWork(mom, F) ==
    IF lagcfg.opacity_model = "user"
    THEN [g \in 1..lagcfg.ng |-> UserWork(lagcfg, mom, F, g)]
    ELSE PowerLawWork(lagcfg, [g \in 1..lagcfg.ng |-> Zero], mom, F)

\* C21: the Newton solve of pass 0 uses the work term of the input state's
\* flux and momentum, the Newton solve of a later pass uses the work term
\* of the flux and the momentum that the pass before it updated, and the
\* gas-energy guess is Egas0 when a Newton solve starts.
C21_WorkLagsOnePass ==
    lagpc = "solve"
        => /\ lag.Egas_guess = lagcfg.Egas0
           /\ lag.ite = 0 => WorkInRvec = FreshWork(lagcfg.gasMtm0, lagcfg.frad)
           /\ lag.ite >= 1 => WorkInRvec = FreshWork(lag.GasMom1, lag.Frad_t1)

\* in the user model the statement holds for every number of groups; in
\* both models a later pass uses what the update of the pass before left
\* in work
C21_UserModelLagsOnePass ==
    lagpc = "solve"
        => /\ lag.Egas_guess = lagcfg.Egas0
           /\ WorkInRvec = lag.work
           /\ lag.ite = 0 => WorkInRvec = FreshWork(lagcfg.gasMtm0, lagcfg.frad)
           /\ (lag.ite >= 1 /\ lagcfg.opacity_model = "user")
                  => WorkInRvec = FreshWork(lag.GasMom1, lag.Frad_t1)

\* C22: at the convergence check, for every group work_prev is the work
\* term that the Newton solve of the pass used and work is the term newly
\* computed from the flux of the pass (with the momentum that the model's
\* update takes), in both opacity models and for every number of groups.
C22_WorkAndWorkPrevAtCheck ==
    lagpc = "check"
        => \A g \in 1..lagcfg.ng :
               /\ lag.work_prev[g] = WorkInRvec[g]
               /\ lag.work[g] =
                      FreshWork(IF lagcfg.opacity_model = "user"
                                THEN lag.GasMom1 ELSE lagcfg.gasMtm0, lag.Frad_t1)[g]

\* the statement holds in the user model, and in the piecewise power-law
\* model for group 0 of a run with at least three groups
C22_UserModelAtCheck ==
    lagpc = "check"
        => \A g \in 1..lagcfg.ng :
               (lagcfg.opacity_model = "user" \/ (g = 1 /\ lagcfg.ng >= 3))
                   => /\ lag.work_prev[g] = WorkInRvec[g]
                      /\ lag.work[g] =
                             FreshWork(IF lagcfg.opacity_model = "user"
                                       THEN lag.GasMom1 ELSE lagcfg.gasMtm0, lag.Frad_t1)[g]

(***************************************************************************)
(* C23.  The matrix of the 3x3 flux update.                                *)
(***************************************************************************)

\* the opacities and F_coeff of group g in the flux update of this pass
FluxUpdateKappaE(g) ==
    ComputeEnergyMeanOpacity(scfg, ComputeTgasFromEint(sCons.rho, Egas_guess, scfg.c_v))[g]

FluxUpdateKappaF(g) ==
    ComputeFluxMeanOpacity(scfg, ComputeTgasFromEint(sCons.rho, Egas_guess, scfg.c_v))[g]

FluxUpdateCoeff(g) ==
    FluxCoeff(scfg, sCons.rho, FluxUpdateKappaF(g), lorentz_factor(scfg, betaSqrOf(scfg, sCons)))

\* the flux update of the pass is about to run its 3x3 branch for group g
ThreeByThreeBranch(g) ==
    /\ spc = "flux"
    /\ scfg.beta_order \notin {0, 1}
    /\ FluxUpdateKappaF(g) # FluxUpdateKappaE(g)

\* the matrix that flux update hands to Solve3x3matrix for group g
HandedMatrix(g) ==
    FluxMatrix(scfg, sCons.rho, FluxUpdateKappaE(g), FluxUpdateKappaF(g), FluxUpdateCoeff(g))

\* delta_ij * (1 + F_coeff) + K0 * v_i * v_j with v the gas velocity of the cell
VelocityMatrix(g) ==
    [i \in Dims |->
        [j \in Dims |->
            RAdd(IF i = j THEN RAdd(One, FluxUpdateCoeff(g)) ELSE Zero,
                 RMul(RMul(FluxK0(scfg, sCons.rho, FluxUpdateKappaE(g), FluxUpdateKappaF(g)),
                           RDiv(sCons.mom[i], sCons.rho)),
                      RDiv(sCons.mom[j], sCons.rho)))]]

\* C23: when the flux-mean and energy-mean opacities of a group differ and
\* beta_order is neither 0 nor 1, the matrix handed to Solve3x3matrix is
\* delta_ij * (1 + F_coeff) + K0 * v_i * v_j with v the gas velocity, so
\* A_ij is nonzero for two nonzero velocity components i # j (K0 is nonzero
\* when the opacities differ).
C23_MatrixHasVelocityTerms ==
    \A g \in Groups :
        ThreeByThreeBranch(g)
            => /\ HandedMatrix(g) = VelocityMatrix(g)
               /\ \A i, j \in Dims :
                      (i # j /\ sCons.mom[i] # Zero /\ sCons.mom[j] # Zero)
                          => HandedMatrix(g)[i][j] # Zero

\* the matrix handed over is (1 + F_coeff) times the identity whatever the
\* gas velocity is, and the new flux is (Frad_t0 + v_terms) / (1 + F_coeff)
C23_MatrixIsDiagonal ==
    \A g \in Groups :
        ThreeByThreeBranch(g)
            => \A i, j \in Dims :
                   HandedMatrix(g)[i][j] =
                       IF i = j THEN RAdd(One, FluxUpdateCoeff(g)) ELSE Zero

(***************************************************************************)
(* C24.  Solve3x3matrix on matrices with nonzero diagonal.                 *)
(***************************************************************************)

Det3(C) ==
    RAdd(RSub(RMul(C[1][1], RSub(RMul(C[2][2], C[3][3]), RMul(C[2][3], C[3][2]))),
              RMul(C[1][2], RSub(RMul(C[2][1], C[3][3]), RMul(C[2][3], C[3][1])))),
         RMul(C[1][3], RSub(RMul(C[2][1], C[3][2]), RMul(C[2][2], C[3][1]))))

MatVec3(C, X) ==
    [i \in 1..3 |-> RAdd(RAdd(RMul(C[i][1], X[1]), RMul(C[i][2], X[2])), RMul(C[i][3], X[3]))]

Solve3x3Returned == ppc = "returned" /\ pin.kind = "solve3x3"

\* C24: for every nonsingular matrix C with nonzero diagonal entries and
\* every right-hand side Y, the X that Solve3x3matrix returns is finite and
\* satisfies C * X = Y.
C24_SolvesEveryNonsingular ==
    (Solve3x3Returned /\ Det3(pin.C) # Zero /\ \A i \in 1..3 : pin.C[i][i] # Zero)
        => /\ \A i \in 1..3 : IsFinite(pout[i])
           /\ MatVec3(pin.C, pout) = [i \in 1..3 |-> pin.Y[i]]

\* the solver is exact when the pivot of the second elimination step,
\* E11 = C11 - C01 * C10 / C00, is nonzero as well
C24_SolvesWhenSecondPivotNonzero ==
    (/\ Solve3x3Returned
     /\ Det3(pin.C) # Zero
     /\ pin.C[1][1] # Zero
     /\ RSub(pin.C[2][2], RDiv(RMul(pin.C[1][2], pin.C[2][1]), pin.C[1][1])) # Zero)
        => /\ \A i \in 1..3 : IsFinite(pout[i])
           /\ MatVec3(pin.C, pout) = [i \in 1..3 |-> pin.Y[i]]

(***************************************************************************)
(* C25.  SolveLinearEqs on the arrow-shaped systems.                       *)
(***************************************************************************)

LinearReturned == ppc = "returned" /\ pin.kind = "lineareqs"

LinearSolvable ==
    /\ \A g \in Groups : pin.aii[g] # Zero
    /\ RSub(pin.a00, VSum([g \in Groups |-> RDiv(RMul(pin.a0i[g], pin.ai0[g]), pin.aii[g])]))
           # Zero

\* C25: when every a_ii is nonzero and a00 - sum_i(a0i * ai0 / aii) is
\* nonzero, the (x0, xi) that SolveLinearEqs returns satisfies
\* a00 * x0 + sum_i(a0i * xi) = y0 and ai0 * x0 + aii * xi = yi for every i.
C25_SolvesArrowSystem ==
    (LinearReturned /\ LinearSolvable)
        => /\ RAdd(RMul(pin.a00, pout.x0),
                   VSum([g \in Groups |-> RMul(pin.a0i[g], pout.xi[g])])) = pin.y0
           /\ \A g \in Groups :
                  RAdd(RMul(pin.ai0[g], pout.x0), RMul(pin.aii[g], pout.xi[g])) = pin.yi[g]

\* a solvable system whose first row couples x0 to every group
C25_Witness ==
    /\ LinearReturned
    /\ LinearSolvable
    /\ \A g \in Groups : pin.a0i[g] # Zero /\ pout.xi[g] # Zero
    /\ pout.x0 # Zero

(***************************************************************************)
(* C26, C27.  The exponents of ComputeRadQuantityExponents.                *)
(***************************************************************************)

ExponentsReturned == ppc = "returned" /\ pin.kind = "exponents"

\* the minmod of two slopes as the claim states it
MinmodOfSlopes(a, b) ==
    IF a = Zero \/ b = Zero \/ RLt(a, Zero) # RLt(b, Zero)
    THEN Zero
    ELSE IF RLt(RAbs(b), RAbs(a)) THEN b ELSE a

C26_MinmodUnlessOppositeInfinities ==
    ExponentsReturned
        => \A g \in 2..(pin.ng - 1) :
               {pout.logslopes[g - 1], pout.logslopes[g]} # {PosInf, NegInf}
                   => pout.exponents[g] =
                          MinmodOfSlopes(pout.logslopes[g - 1], pout.logslopes[g])

\* C27: every exponent returned has magnitude below 100, so none of the
\* assertions of the call fails.
C27_ExponentsBelow100 ==
    ExponentsReturned
        => /\ \A g \in 1..pin.ng : RLt(RAbs(pout.exponents[g]), I(100))
           /\ pout.asserted

\* for spectra whose group means are all positive the bound holds
C27_Below100WhenPositive ==
    (ExponentsReturned /\ \A g \in 1..pin.ng : RGt(pin.quant[g], Zero))
        => /\ \A g \in 1..pin.ng : RLt(RAbs(pout.exponents[g]), I(100))
           /\ pout.asserted

(***************************************************************************)
(* C28.  The stored state as the input of a following call.                *)
(***************************************************************************)

\* the assertions at the start of AddSourceTerms on a cell: every radiation
\* energy is positive and so is the gas internal energy Egas0
SourcePreconditions(cell) ==
    /\ \A g \in Groups : RGt(cell.rad[g][1], Zero)
    /\ RGt(ComputeEintFromEgas(cell.rho, cell.mom, cell.Egas), Zero)

\* C28: every state stored by a completed AddSourceTerms call satisfies
\* the preconditions asserted at the start of AddSourceTerms.
C28_StoredStateMeetsPreconditions ==
    spc = "stored" => SourcePreconditions(sCons)

\* a stored state has no negative radiation energy
C28_StoredEnergiesNonnegative ==
    spc = "stored" => \A g \in Groups : RGe(sCons.rad[g][1], Zero)

(***************************************************************************)
(* C29, C30.  The substeps of subcycleRadiationAtLevel.                    *)
(***************************************************************************)

\* C29: with nsubSteps > 1 every radiation substep after the first advances
\* the state that the previous substep produced: what stage 1 of substep k
\* reads as the old state is the result of the exchange of substep k - 1.
C29_SubstepsCompose ==
    \A g \in Grids :
        s1Read[g].sub >= 1 => s1Read[g].valid = <<s1Read[g].sub - 1, "exchanged">>

\* stage 1 of every substep reads the state of the beginning of the level
\* timestep, and overwrites what the previous substep left in state_new_
C29_EverySubstepRestarts ==
    \A g \in Grids :
        /\ s1Read[g].sub >= 0 => s1Read[g].valid = OldValid
        /\ (dpc = "stage1" /\ giter > g /\ isub >= 1) => newValid[g] = <<isub, "predicted">>

\* a call of subcycleRadiationAtLevel that has returned has run exactly
\* nsubSteps = ceil(dt_hydro / dtrad_tmp) substeps of size dt_hydro /
\* nsubSteps with 1 <= nsubSteps < 10000, each no longer than the CFL limit
\* dtrad_tmp, and the substeps sum to dt_hydro.
C30_SubstepCountAndSize ==
    dpc = "done"
        => /\ isub = nsubSteps
           /\ nsubSteps = CeilDiv(dcfg.dt_lev_hydro, dcfg.dtrad_tmp)
           /\ nsubSteps >= 1 /\ nsubSteps < 10000
           /\ dt_radiation = RDiv(I(dcfg.dt_lev_hydro), I(nsubSteps))
           /\ RLe(dt_radiation, I(dcfg.dtrad_tmp))
           /\ RMul(I(nsubSteps), dt_radiation) = I(dcfg.dt_lev_hydro)
           /\ \A g \in Grids : newValid[g] = <<nsubSteps - 1, "exchanged">>

\* a returned call whose hydro timestep is not a multiple of the CFL limit
C30_Witness ==
    /\ dpc = "done"
    /\ nsubSteps > 1
    /\ isub = nsubSteps
    /\ dcfg.dt_lev_hydro % dcfg.dtrad_tmp # 0
    /\ RLt(dt_radiation, I(dcfg.dtrad_tmp))

\* with hydro disabled nsubSteps stays 0 and the call stops at its first
\* assertion instead of returning
C30_ReturnsOnlyWithHydro ==
    /\ dpc = "done" => dcfg.is_hydro_enabled_
    /\ (dpc # "subcycle" /\ ~dcfg.is_hydro_enabled_) => (dpc = "aborted" /\ nsubSteps = 0)

====
